---- MODULE Spec2Model ----
(***************************************************************************)
(* A model of the Azure cost extraction pipeline: the service-principal    *)
(* token cache (auth.py), the retrying HTTP call and the paginated,        *)
(* per-scope extraction (data_extractor.py) and the two sinks              *)
(* (csv_writer.py, delta_writer.py).                                       *)
(*                                                                         *)
(* Each component has its own specification (SpecAuth, SpecRetry, ...),    *)
(* which moves that component's variables and leaves the others alone.     *)
(***************************************************************************)
EXTENDS Integers, Sequences, FiniteSets, TLC

VARIABLES
    \* ---- ServicePrincipalAuthenticator (auth.py) ----
    token,          \* self._token: None or the cached access token
    token_expiry,   \* self._token_expiry: None or the absolute expiry instant
    now,            \* datetime.now(), in seconds
    last_get,       \* observation of the latest get_token() call
    \* ---- AzureCostExtractor._request_with_retry (data_extractor.py) ----
    pc,             \* position of the call: idle, loop, returned, raised
    attempt,        \* the for-loop counter: iterations started so far
    backoff,        \* local variable backoff
    last_exception, \* local variable last_exception
    outcome,        \* how the call ended: the response returned or the error raised
    headers,        \* local variable headers: the token sent and when it was acquired
    obs,            \* observations of the current call (calls, waits, invalidations)
    \* ---- AzureCostExtractor.extract_costs_for_date (data_extractor.py) ----
    ext_pc,         \* position: idle, scope (top of the for loop), page (in the while
                    \* loop), done (returned), raised
    scopes,         \* argument scopes
    window,         \* arguments target_date and end_date
    scope_idx,      \* index of the scope the for loop is at
    results,        \* local variable results
    columns,        \* _extract_single_scope: local variable columns
    all_rows,       \* _extract_single_scope: local variable all_rows
    next_link,      \* response_data["properties"].get("nextLink")
    served,         \* the responses received for the scope being extracted or, between
                    \* two scopes, for the scope extracted last, in order
    scope_log,      \* per scope already handled: how it ended ("ok" or "failed")
    \* ---- CSVWriter (csv_writer.py) ----
    csv_files,      \* the output directory: file name -> file text, None when absent
    csv_now,        \* the wall clock read by datetime.now(): it moves on with every call
    csv_ret,        \* what the latest write_cost_data call returned (total_rows)
    csv_written,    \* the report saved last, and whether the save before it was of
                    \* the same report
    \* ---- DeltaLakeWriter (delta_writer.py) ----
    delta_table,    \* the Delta table at the table path, None when there is none
    delta_now,      \* the time current_timestamp() reads: it moves on with every call
    delta_ret,      \* how the latest write_cost_data call ended (total_rows or raised)
    delta_written,  \* the call that returned last, and whether the call before it
                    \* was the same and returned too
    spark_ansi,     \* spark.sql.ansi.enabled of the session
    \* ---- run_pipeline (main.py) ----
    storage_mode,   \* config.storage_mode: "csv" or "delta", it selects the writer
    run,            \* one run of the process: position, arguments, stats, exit code
    \* ---- the authenticator create_authenticator builds (auth.py) ----
    provider,       \* its class (mode), its lazily loaded credential and the token
                    \* that credential caches, and the latest get_token() call
    \* ---- AzureCostExtractor._extract_scope_name (data_extractor.py) ----
    name_arg,       \* the path segments of the scope id the function is called with
    name_ret        \* what the call returned, None before it has returned

authVars == <<token, token_expiry, now, last_get>>
retryVars == <<pc, attempt, backoff, last_exception, outcome, headers, obs>>
extractVars == <<ext_pc, scopes, window, scope_idx, results, columns, all_rows, next_link,
                 served, scope_log>>
csvVars == <<csv_files, csv_now, csv_ret, csv_written>>
deltaVars == <<delta_table, delta_now, delta_ret, delta_written, spark_ansi>>
writerVars == <<csvVars, deltaVars, storage_mode>>
pipeVars == <<run>>
providerVars == <<provider>>
nameVars == <<name_arg, name_ret>>
vars == <<authVars, retryVars, extractVars, writerVars, pipeVars, providerVars, nameVars>>

\* Optional[...] values: None is the empty sequence, a present value a singleton.
None == <<>>
Some(v) == <<v>>
IsNone(o) == o = <<>>
Get(o) == o[1]

Min(a, b) == IF a <= b THEN a ELSE b

(***************************************************************************)
(* ServicePrincipalAuthenticator                                           *)
(***************************************************************************)

\* timedelta(minutes=5), in seconds
TOKEN_BUFFER_SECONDS == 300
\* data.get('expires_in', 3600)
DEFAULT_EXPIRES_IN == 3600

\* Bounds of the clock and of the token endpoint's answers.
BigTick == 3299
MaxBigTicks == 2
MaxSmallTicks == 3
ShortExpiresIn == 60
EdgeExpiresIn == 302

TickSteps == {1, BigTick}
MaxNow == MaxBigTicks * BigTick + MaxSmallTicks
Tokens == {"t1", "t2"}

\* What the token endpoint can answer to one POST.
\*   kind "timeout" / "connerr": requests.post raises
\*   kind "status": raise_for_status raises HTTPError
\*   kind "json": a JSON body; access_token absent (None), null or a string;
\*                expires_in absent (None) or present, and then an integer
\*                (expires_int) or something int() rejects
TokenResponses ==
    {[kind |-> k, access_token |-> None, expires_in |-> None, expires_int |-> TRUE] :
            k \in {"timeout", "connerr", "status"}}
    \cup {[kind |-> "json", access_token |-> a, expires_in |-> e, expires_int |-> TRUE] :
            a \in {None, Some("null")} \cup {Some(t) : t \in Tokens},
            e \in {None, Some(ShortExpiresIn), Some(TOKEN_BUFFER_SECONDS), Some(EdgeExpiresIn)}}
    \cup {[kind |-> "json", access_token |-> a, expires_in |-> Some(0), expires_int |-> FALSE] :
            a \in {None, Some("null")} \cup {Some(t) : t \in Tokens}}

\* Mutant: the 5-minute buffer is forgotten.
IsTokenValidNoBuffer(tok, exp, t) ==
    IF IsNone(tok) \/ IsNone(exp) THEN FALSE ELSE t < Get(exp)

\* _is_token_valid
IsTokenValid(tok, exp, t) ==
    IF IsNone(tok) \/ IsNone(exp)
    THEN FALSE
    ELSE t < Get(exp) - TOKEN_BUFFER_SECONDS

\* Mutant: a missing expires_in counts as a short lifetime.
ExpiresInShort(resp) ==
    IF IsNone(resp.expires_in) THEN ShortExpiresIn ELSE Get(resp.expires_in)

\* int(data.get('expires_in', 3600)): the seconds (when int() does not raise)
ExpiresIn(resp) ==
    IF IsNone(resp.expires_in) THEN DEFAULT_EXPIRES_IN ELSE Get(resp.expires_in)

\* data['access_token']: JSON null becomes Python None
AccessToken(resp) ==
    IF resp.access_token = Some("null") THEN None ELSE resp.access_token

\* _fetch_new_token: the cache after the exchange, the value returned and the
\* exception raised ("none" when it returns).
FetchNewToken(tok, exp, t, resp) ==
    CASE resp.kind = "timeout" ->
            [token |-> tok, expiry |-> exp, ret |-> None, err |-> "Timeout"]
      [] resp.kind = "connerr" ->
            [token |-> tok, expiry |-> exp, ret |-> None, err |-> "ConnectionError"]
      [] resp.kind = "status" ->
            [token |-> tok, expiry |-> exp, ret |-> None, err |-> "HTTPError"]
      [] resp.kind = "json" /\ IsNone(resp.access_token) ->
            [token |-> tok, expiry |-> exp, ret |-> None, err |-> "ValueError"]
      [] resp.kind = "json" /\ ~IsNone(resp.access_token) /\ ~resp.expires_int ->
            \* self._token is assigned before int() raises
            [token |-> AccessToken(resp), expiry |-> exp, ret |-> None, err |-> "ValueError"]
      [] OTHER ->
            [token |-> AccessToken(resp), expiry |-> Some(t + ExpiresIn(resp)),
             ret |-> AccessToken(resp), err |-> "none"]

\* get_token: the cached token while it is valid, else one exchange.
GetToken(tok, exp, t, resp) ==
    IF IsTokenValid(tok, exp, t)
    THEN [token |-> tok, expiry |-> exp, ret |-> tok, err |-> "none", fetched |-> FALSE]
    ELSE LET f == FetchNewToken(tok, exp, t, resp)
         IN  [token |-> f.token, expiry |-> f.expiry, ret |-> f.ret, err |-> f.err,
              fetched |-> TRUE]

\* What a get_token() call leaves behind for the properties to read.
GetObservation(g, resp) ==
    [called |-> TRUE,
     had_token |-> ~IsNone(token),
     in_window |-> ~IsNone(token_expiry) /\ now < Get(token_expiry) - TOKEN_BUFFER_SECONDS,
     cached_before |-> token,
     expiry_before |-> token_expiry,
     fetched |-> g.fetched,
     err |-> g.err,
     ret |-> g.ret,
     resp |-> resp,
     at |-> now]

NoObservation ==
    [called |-> FALSE, had_token |-> FALSE, in_window |-> FALSE, cached_before |-> None,
     expiry_before |-> None,
     fetched |-> FALSE, err |-> "none", ret |-> None,
     resp |-> [kind |-> "timeout", access_token |-> None, expires_in |-> None,
              expires_int |-> TRUE],
     at |-> 0]

\* A caller asks for the token (main.py: authenticator.token).
GetTokenCall ==
    \E resp \in TokenResponses :
        LET g == GetToken(token, token_expiry, now, resp)
        IN  /\ token' = g.token
            /\ token_expiry' = g.expiry
            /\ last_get' = GetObservation(g, resp)
            /\ UNCHANGED <<nameVars, now, retryVars, extractVars, writerVars, pipeVars, providerVars>>

\* invalidate_token
InvalidatedToken == None
InvalidatedExpiry == None

InvalidateTokenCall ==
    /\ token' = InvalidatedToken
    /\ token_expiry' = InvalidatedExpiry
    /\ last_get' = NoObservation
    /\ UNCHANGED <<nameVars, now, retryVars, extractVars, writerVars, pipeVars, providerVars>>

\* Time passes: by a second (a few times in a row) or by most of a token's life.
Tick ==
    \E d \in TickSteps :
        /\ now + d <= MaxNow
        /\ d = 1 => (now % BigTick) < MaxSmallTicks
        /\ now' = now + d
        /\ UNCHANGED <<nameVars, token, token_expiry, last_get, retryVars, extractVars, writerVars, pipeVars, providerVars>>

InitAuth ==
    /\ token = None
    /\ token_expiry = None
    /\ now = 0
    /\ last_get = NoObservation

NextAuth == GetTokenCall \/ InvalidateTokenCall \/ Tick

(***************************************************************************)
(* The authenticators create_authenticator builds                          *)
(*                                                                         *)
(* AzureCliAuthenticator and InteractiveBrowserAuthenticator keep no token *)
(* themselves: they hold an azure.identity credential, loaded on first     *)
(* use, and the token lives in that credential's own cache (the CLI's      *)
(* login session, MSAL's cache).                                           *)
(***************************************************************************)

AuthModes == {"service_principal", "cli", "browser"}

\* the seconds a token of the CLI or of the browser login lives
DelegatedLifetimes == {ShortExpiresIn, DEFAULT_EXPIRES_IN}

\* What credential.get_token(MANAGEMENT_SCOPE) does at time t with the cache it
\* keeps: the cached token while it has not expired, else a new login or
\* exchange, which gives a token (answer.ok) or raises
CredentialGetToken(cache, t, answer) ==
    IF ~IsNone(cache) /\ t < Get(cache).expiry
    THEN [cache |-> cache, ret |-> Some(Get(cache).token), fetched |-> FALSE, err |-> "none"]
    ELSE IF answer.ok
    THEN [cache |-> Some([token |-> answer.token, expiry |-> t + answer.lifetime]),
          ret |-> Some(answer.token), fetched |-> TRUE, err |-> "none"]
    ELSE [cache |-> cache, ret |-> None, fetched |-> TRUE, err |-> "ClientAuthenticationError"]

CredentialAnswers ==
    {[ok |-> TRUE, token |-> tk, lifetime |-> l] : tk \in Tokens, l \in DelegatedLifetimes}
    \cup {[ok |-> FALSE, token |-> "t1", lifetime |-> ShortExpiresIn]}

\* What is remembered of a get_token() call: whether invalidate_token() was
\* called since the get_token() before it, whether a token was cached and still
\* inside its validity window when it began, whether it made an exchange, and
\* how it ended.
ProviderGet(after_invalidate, in_window, fetched, err) ==
    [called |-> TRUE, after_invalidate |-> after_invalidate, in_window |-> in_window,
     fetched |-> fetched, err |-> err]

NoProviderGet ==
    [called |-> FALSE, after_invalidate |-> FALSE, in_window |-> FALSE, fetched |-> FALSE,
     err |-> "none"]

\* ServicePrincipalAuthenticator.get_token
SpGetToken ==
    /\ provider.mode = "service_principal"
    /\ \E resp \in TokenResponses :
        LET g == GetToken(token, token_expiry, now, resp)
        IN  /\ token' = g.token
            /\ token_expiry' = g.expiry
            /\ provider' = [provider EXCEPT
                              !.invalidated = FALSE,
                              !.was_valid = FALSE,
                              !.last = ProviderGet(provider.invalidated, provider.was_valid,
                                                   g.fetched, g.err)]
    /\ UNCHANGED <<nameVars, now, last_get, retryVars, extractVars, writerVars, pipeVars>>

\* ServicePrincipalAuthenticator.invalidate_token: it cannot raise
SpInvalidateToken ==
    /\ provider.mode = "service_principal"
    /\ token' = InvalidatedToken
    /\ token_expiry' = InvalidatedExpiry
    /\ provider' = [provider EXCEPT !.invalidated = TRUE,
                                    !.was_valid = IsTokenValid(token, token_expiry, now)]
    /\ UNCHANGED <<nameVars, now, last_get, retryVars, extractVars, writerVars, pipeVars>>

\* AzureCliAuthenticator.get_token / InteractiveBrowserAuthenticator.get_token:
\* _get_credential() loads the credential once, credential.get_token answers
DelegatedGetToken ==
    /\ provider.mode # "service_principal"
    /\ \E answer \in CredentialAnswers :
        LET g == CredentialGetToken(provider.cache, now, answer)
        IN  provider' = [provider EXCEPT
                           !.credential = TRUE,
                           !.cache = g.cache,
                           !.invalidated = FALSE,
                           !.was_valid = FALSE,
                           !.last = ProviderGet(provider.invalidated, provider.was_valid,
                                                g.fetched, g.err)]
    /\ UNCHANGED <<nameVars, authVars, retryVars, extractVars, writerVars, pipeVars>>

\* AzureCliAuthenticator.invalidate_token logs, InteractiveBrowserAuthenticator's
\* passes: neither touches the credential or its cache, neither can raise
DelegatedInvalidateToken ==
    /\ provider.mode # "service_principal"
    /\ provider' = [provider EXCEPT
                      !.invalidated = TRUE,
                      !.was_valid = ~IsNone(provider.cache) /\ now < Get(provider.cache).expiry]
    /\ UNCHANGED <<nameVars, authVars, retryVars, extractVars, writerVars, pipeVars>>

\* The authenticator as its constructor leaves it
ProviderOf(mode) ==
    [mode |-> mode, credential |-> FALSE, cache |-> None, invalidated |-> FALSE,
     was_valid |-> FALSE, last |-> NoProviderGet]

InitProvider == provider = ProviderOf("service_principal")

NextProvider ==
    SpGetToken \/ SpInvalidateToken \/ DelegatedGetToken \/ DelegatedInvalidateToken \/ Tick

(***************************************************************************)
(* AzureCostExtractor._request_with_retry                                  *)
(***************************************************************************)

MAX_RETRIES == 5
INITIAL_BACKOFF_SECONDS == 2
MAX_BACKOFF_SECONDS == 120
\* time.sleep(1) after a 401
UNAUTHORIZED_PAUSE_SECONDS == 1

\* Bound: the Retry-After value a server sends.
LongRetryAfter == 200

Statuses == {200, 400, 401, 404, 429, 500}

\* The Retry-After header: absent or empty (None), or a text that int() accepts
\* (secs) or rejects (an HTTP date).
RetryAfterHeaders ==
    {None, Some([int |-> TRUE, secs |-> LongRetryAfter]), Some([int |-> FALSE, secs |-> 0])}

\* What requests.post / requests.get can do: raise Timeout or ConnectionError, or
\* return a response with a status code and headers.
HttpResponses ==
    {[kind |-> k, status |-> 0, retry_after |-> None] : k \in {"timeout", "connerr"}}
    \cup {[kind |-> "response", status |-> st, retry_after |-> None] : st \in Statuses}
    \cup {[kind |-> "response", status |-> 429, retry_after |-> ra] : ra \in RetryAfterHeaders}

\* wait_time = min(backoff, self.MAX_BACKOFF_SECONDS)
WaitTime(b) == Min(b, MAX_BACKOFF_SECONDS)

\* Mutant: the backoff grows linearly.
NextBackoffLinear(b) == b + INITIAL_BACKOFF_SECONDS

\* backoff *= 2
NextBackoff(b) == b * 2

\* int(retry_after) does not raise
RetryAfterParses(ra) == IF IsNone(ra) THEN TRUE ELSE Get(ra).int

\* Mutant: the header's seconds are capped like a backoff wait.
RateLimitWaitCapped(ra, b) ==
    IF IsNone(ra) THEN WaitTime(b) ELSE Min(Get(ra).secs, MAX_BACKOFF_SECONDS)

\* wait_time = int(retry_after) if retry_after else min(backoff, MAX_BACKOFF_SECONDS)
RateLimitWait(ra, b) == IF IsNone(ra) THEN WaitTime(b) ELSE Get(ra).secs

\* Mutant: raise_for_status() is left out.
RaisesForStatusNever(st) == FALSE

\* response.raise_for_status(): HTTPError for 4xx and 5xx
RaisesForStatus(st) == st >= 400 /\ st < 600

\* The branch of the if/elif chain and of the except clauses a response takes.
Classify(r) ==
    CASE r.kind = "timeout" -> "Timeout"
      [] r.kind = "connerr" -> "ConnectionError"
      [] r.status = 401 -> "401"
      [] r.status = 429 -> "429"
      [] r.status >= 500 -> "5xx"
      [] OTHER -> "final"

\* Mutant: invalidate_token() leaves the cache alone.
InvalidateTokenNoop(cache) == cache

\* self._auth.invalidate_token()
InvalidateToken(cache) == [token |-> InvalidatedToken, expiry |-> InvalidatedExpiry]

\* Mutant: the generic error whatever happened.
ExhaustedErrorGeneric(last) == "RequestException"

\* After the loop: raise last_exception if set, else the generic RequestException.
ExhaustedError(last) == IF IsNone(last) THEN "RequestException" ELSE Get(last)

\* Mutant: the headers of the first attempt are kept for the later ones.
AcquireHeadersOnce(old, g, a) ==
    IF IsNone(old) THEN Some([token |-> g.ret, attempt |-> a, fetched |-> g.fetched]) ELSE old

\* headers = self._auth.get_auth_headers(), in iteration a
AcquireHeaders(old, g, a) == Some([token |-> g.ret, attempt |-> a, fetched |-> g.fetched])

\* The token endpoint's answers while a request is retried.
RetryTokenResponses ==
    {tr \in TokenResponses :
        /\ tr.access_token \in {None, Some("t1")}
        /\ tr.expires_in \in {None, Some(ShortExpiresIn)}
        /\ tr.expires_int}

\* prior: the call before this one ended with retries counted, a raised backoff
\* and a last exception in its locals
EmptyObs == [n_http |-> 0, n_inval |-> 0, trace |-> <<>>, prior |-> FALSE]

\* One entry of the call's trace, per loop iteration.
\*   kind: the branch taken; http: an HTTP call was issued; hdr_attempt: the
\*   iteration in which the headers sent were acquired; fetched: that acquisition
\*   exchanged a new token; wait: the seconds slept; src: where the wait came
\*   from; before: backoff when the iteration began
Entry(kind, http, hdr, wait, src, st) ==
    [kind |-> kind, http |-> http,
     hdr_attempt |-> IF IsNone(hdr) THEN 0 ELSE Get(hdr).attempt,
     fetched |-> IF IsNone(hdr) THEN FALSE ELSE Get(hdr).fetched,
     wait |-> wait, src |-> src, status |-> st, before |-> backoff]

Observe(e, inval) ==
    [n_http |-> obs.n_http + (IF e.http THEN 1 ELSE 0),
     n_inval |-> obs.n_inval + (IF inval THEN 1 ELSE 0),
     trace |-> Append(obs.trace, e),
     prior |-> obs.prior]

\* Mutant: the backoff of the call before is carried into the new call.
FreshBackoffCarried(b) == b

\* backoff = self.INITIAL_BACKOFF_SECONDS: a local of the new call
FreshBackoff(b) == INITIAL_BACKOFF_SECONDS

\* A caller starts one logical HTTP operation (the query of a scope or the
\* fetch of a page): _request_with_retry sets up its locals.
StartCall ==
    /\ pc \in {"idle", "returned", "raised"}
    /\ pc' = "loop"
    /\ attempt' = 0
    /\ backoff' = FreshBackoff(backoff)
    /\ last_exception' = None
    /\ outcome' = None
    /\ headers' = None
    /\ obs' = [EmptyObs EXCEPT !.prior = attempt > 0 /\ backoff > INITIAL_BACKOFF_SECONDS
                                          /\ ~IsNone(last_exception)]
    /\ UNCHANGED <<nameVars, authVars, extractVars, writerVars, pipeVars, providerVars>>

\* Mutant: one iteration too many.
InLoopOneMore == pc = "loop" /\ attempt <= MAX_RETRIES

\* for attempt in range(self.MAX_RETRIES)
InLoop == pc = "loop" /\ attempt < MAX_RETRIES

\* The token cache after get_auth_headers() in this iteration.
AuthStep(g, resp) ==
    /\ token' = g.token
    /\ token_expiry' = g.expiry
    /\ UNCHANGED <<nameVars, last_get, extractVars, writerVars, pipeVars, providerVars>>

\* The iteration ends in a retry: time.sleep(wait), then the next iteration.
Retry(wait, nb, last) ==
    /\ UNCHANGED now
    /\ backoff' = nb
    /\ last_exception' = last
    /\ attempt' = attempt + 1
    /\ UNCHANGED <<pc, outcome>>

\* The iteration ends the call.
Finish(state, result) ==
    /\ pc' = state
    /\ outcome' = Some(result)
    /\ UNCHANGED <<now, attempt, backoff, last_exception>>

\* Mutant: the except clauses do not see what get_auth_headers() raises.
CaughtByLoopNever(err) == FALSE

\* except requests.exceptions.Timeout / except requests.exceptions.ConnectionError
CaughtByLoop(err) == err \in {"Timeout", "ConnectionError"}

\* get_auth_headers() raises Timeout or ConnectionError (the token exchange's
\* requests.post): caught by the loop's except clauses, like a transport failure
\* of the request itself.
AttemptAuthTransport ==
    /\ InLoop
    /\ \E tr \in RetryTokenResponses :
        LET g == GetToken(token, token_expiry, now, tr)
            w == WaitTime(backoff)
        IN  /\ g.err # "none"
            /\ CaughtByLoop(g.err)
            /\ AuthStep(g, tr)
            /\ headers' = headers
            /\ obs' = Observe(Entry(g.err, FALSE, None, w, "backoff", 0), FALSE)
            /\ Retry(w, NextBackoff(backoff), Some(g.err))

\* get_auth_headers() raises HTTPError or ValueError: no except clause matches,
\* the exception leaves _request_with_retry.
AttemptAuthError ==
    /\ InLoop
    /\ \E tr \in RetryTokenResponses :
        LET g == GetToken(token, token_expiry, now, tr)
        IN  /\ g.err # "none"
            /\ ~CaughtByLoop(g.err)
            /\ AuthStep(g, tr)
            /\ headers' = headers
            /\ obs' = Observe(Entry("auth_error", FALSE, None, 0, "none", 0), FALSE)
            /\ Finish("raised", [kind |-> "error", error |-> g.err, status |-> 0])

\* The request raises Timeout or ConnectionError.
AttemptTransport ==
    /\ InLoop
    /\ \E tr \in RetryTokenResponses, r \in HttpResponses :
        LET g == GetToken(token, token_expiry, now, tr)
            h == AcquireHeaders(headers, g, attempt)
            w == WaitTime(backoff)
        IN  /\ g.err = "none"
            /\ Classify(r) \in {"Timeout", "ConnectionError"}
            /\ AuthStep(g, tr)
            /\ headers' = h
            /\ obs' = Observe(Entry(Classify(r), TRUE, h, w, "backoff", 0), FALSE)
            /\ Retry(w, NextBackoff(backoff), Some(Classify(r)))

\* Mutant: a 401 doubles the backoff like the other retries.
BackoffAfter401Doubled(b) == NextBackoff(b)

\* the 401 branch has no statement that assigns backoff
BackoffAfter401(b) == b

\* Mutant: a 401 does not use up an attempt.
AttemptAfter401Free(a) == a

\* continue: the for loop goes on with the next value of attempt
AttemptAfter401(a) == a + 1

\* 401: invalidate the token, pause, next iteration; backoff is left alone.
Attempt401 ==
    /\ InLoop
    /\ \E tr \in RetryTokenResponses, r \in HttpResponses :
        LET g == GetToken(token, token_expiry, now, tr)
            h == AcquireHeaders(headers, g, attempt)
            c == InvalidateToken([token |-> g.token, expiry |-> g.expiry])
        IN  /\ g.err = "none"
            /\ Classify(r) = "401"
            /\ token' = c.token
            /\ token_expiry' = c.expiry
            /\ UNCHANGED <<nameVars, last_get, extractVars, writerVars, pipeVars, providerVars>>
            /\ headers' = h
            /\ obs' = Observe(Entry("401", TRUE, h, UNAUTHORIZED_PAUSE_SECONDS, "fixed",
                                    r.status), TRUE)
            /\ UNCHANGED <<now, pc, outcome, last_exception>>
            /\ backoff' = BackoffAfter401(backoff)
            /\ attempt' = AttemptAfter401(attempt)

\* 429: wait Retry-After if the header is there, else the capped backoff.
Attempt429 ==
    /\ InLoop
    /\ \E tr \in RetryTokenResponses, r \in HttpResponses :
        LET g == GetToken(token, token_expiry, now, tr)
            h == AcquireHeaders(headers, g, attempt)
            w == RateLimitWait(r.retry_after, backoff)
            src == IF IsNone(r.retry_after) THEN "backoff" ELSE "retry_after"
        IN  /\ g.err = "none"
            /\ Classify(r) = "429"
            /\ RetryAfterParses(r.retry_after)
            /\ AuthStep(g, tr)
            /\ headers' = h
            /\ obs' = Observe(Entry("429", TRUE, h, w, src, r.status), FALSE)
            /\ Retry(w, NextBackoff(backoff), last_exception)

\* 429 with a Retry-After that int() rejects: the ValueError matches no except
\* clause and leaves _request_with_retry.
Attempt429BadHeader ==
    /\ InLoop
    /\ \E tr \in RetryTokenResponses, r \in HttpResponses :
        LET g == GetToken(token, token_expiry, now, tr)
            h == AcquireHeaders(headers, g, attempt)
        IN  /\ g.err = "none"
            /\ Classify(r) = "429"
            /\ ~RetryAfterParses(r.retry_after)
            /\ AuthStep(g, tr)
            /\ headers' = h
            /\ obs' = Observe(Entry("429_bad", TRUE, h, 0, "none", r.status), FALSE)
            /\ Finish("raised", [kind |-> "error", error |-> "ValueError", status |-> r.status])

\* status >= 500: wait the capped backoff, double it, next iteration.
AttemptServerError ==
    /\ InLoop
    /\ \E tr \in RetryTokenResponses, r \in HttpResponses :
        LET g == GetToken(token, token_expiry, now, tr)
            h == AcquireHeaders(headers, g, attempt)
            w == WaitTime(backoff)
        IN  /\ g.err = "none"
            /\ Classify(r) = "5xx"
            /\ AuthStep(g, tr)
            /\ headers' = h
            /\ obs' = Observe(Entry("5xx", TRUE, h, w, "backoff", r.status), FALSE)
            /\ Retry(w, NextBackoff(backoff), last_exception)

\* Any other status: raise_for_status(), then return the response.
AttemptFinal ==
    /\ InLoop
    /\ \E tr \in RetryTokenResponses, r \in HttpResponses :
        LET g == GetToken(token, token_expiry, now, tr)
            h == AcquireHeaders(headers, g, attempt)
        IN  /\ g.err = "none"
            /\ Classify(r) = "final"
            /\ AuthStep(g, tr)
            /\ headers' = h
            /\ obs' = Observe(Entry("final", TRUE, h, 0, "none", r.status), FALSE)
            /\ IF RaisesForStatus(r.status)
               THEN Finish("raised", [kind |-> "error", error |-> "HTTPError",
                                      status |-> r.status])
               ELSE Finish("returned", [kind |-> "response", error |-> "none",
                                        status |-> r.status])

\* All retries exhausted.
Exhausted ==
    /\ pc = "loop"
    /\ attempt >= MAX_RETRIES
    /\ pc' = "raised"
    /\ outcome' = Some([kind |-> "error", error |-> ExhaustedError(last_exception),
                        status |-> 0])
    /\ UNCHANGED <<nameVars, authVars, extractVars, writerVars, pipeVars, providerVars, attempt, backoff, last_exception, headers, obs>>

\* main.py authenticates once before the extractor is built.
Authenticate ==
    /\ pc = "idle"
    /\ \E resp \in RetryTokenResponses :
        LET g == GetToken(token, token_expiry, now, resp)
        IN  /\ AuthStep(g, resp)
            /\ UNCHANGED <<now, retryVars>>

InitRetry ==
    /\ pc = "idle"
    /\ attempt = 0
    /\ backoff = INITIAL_BACKOFF_SECONDS
    /\ last_exception = None
    /\ outcome = None
    /\ headers = None
    /\ obs = EmptyObs

NextRetry ==
    \/ Authenticate
    \/ StartCall
    \/ AttemptAuthTransport
    \/ AttemptAuthError
    \/ AttemptTransport
    \/ Attempt401
    \/ Attempt429
    \/ Attempt429BadHeader
    \/ AttemptServerError
    \/ AttemptFinal
    \/ Exhausted

(***************************************************************************)
(* AzureCostExtractor.extract_costs_for_date and _extract_single_scope     *)
(***************************************************************************)

\* Bounds: scopes per call and pages the API chains for one scope.
MaxScopes == 2
MaxPages == 2

ScopeIds == {"scopeA", "scopeB"}
Dates == {5, 6}
PageSizes == {0, 2}

RECURSIVE SeqsUpTo(_, _)
SeqsUpTo(S, n) ==
    IF n = 0 THEN {<<>>}
    ELSE LET shorter == SeqsUpTo(S, n - 1)
         IN  shorter \cup {Append(q, x) : q \in {t \in shorter : Len(t) = n - 1}, x \in S}

ScopeLists == SeqsUpTo(ScopeIds, MaxScopes)

\* target_date and end_date (None when the caller leaves it out): one day, the
\* same day twice, a range, and a range whose end lies before its start
Windows ==
    {[target_date |-> 5, end_date |-> None], [target_date |-> 5, end_date |-> Some(5)],
     [target_date |-> 5, end_date |-> Some(6)], [target_date |-> 6, end_date |-> Some(5)]}

\* The rows of page number p when it carries n rows: the API sends each row once.
PageRows(p, n) == [i \in 1..n |-> <<p, i>>]

\* properties.columns of a response: the list the query asks for or, on a
\* later page, the same columns in another order
ColumnLists == {<<"PreTaxCost", "UsageDate", "Currency">>, <<"UsageDate", "PreTaxCost", "Currency">>}

\* properties.nextLink of page p when the API chains a further page: each page
\* names its own successor
PageLinks == <<"page2", "page3", "page4", "page5">>
LinkAfter(p) == PageLinks[p]

PageColumns(p) == IF p = 1 THEN {<<"PreTaxCost", "UsageDate", "Currency">>} ELSE ColumnLists

\* What _make_query_request / _fetch_next_page can give for page number p:
\*   kind "raise": _request_with_retry raised (retries exhausted, HTTPError, ...)
\*   kind "malformed": response.json() raises or the body lacks "properties" (or,
\*                     on the first page, "columns")
\*   kind "page": a body with columns, rows (None when the key is absent) and
\*                nextLink (None when absent or null, else a string, maybe empty)
PageResults(p) ==
    {[kind |-> k, columns |-> <<>>, rows |-> None, next_link |-> None] : k \in {"raise", "malformed"}}
    \cup {[kind |-> "page", columns |-> c, rows |-> r, next_link |-> l] :
            c \in PageColumns(p),
            r \in {None} \cup {Some(PageRows(p, n)) : n \in PageSizes},
            l \in {None, Some("")} \cup (IF p < MaxPages THEN {Some(LinkAfter(p))} ELSE {})}

\* response_data["properties"].get("rows", [])
RowsOf(page) == IF IsNone(page.rows) THEN <<>> ELSE Get(page.rows)

\* Mutant: a later page replaces the rows collected so far.
ExtendRowsReplace(rows, new) == new

\* all_rows.extend(new_rows)
ExtendRows(rows, new) == rows \o new

\* while response_data["properties"].get("nextLink"): None and "" are falsy
HasNextLink(link) == ~IsNone(link) /\ Get(link) # ""

\* Mutant: an omitted end date is not defaulted, the label is always a range.
DateLabelRange(w) ==
    IF IsNone(w.end_date) THEN <<w.target_date, w.target_date>>
    ELSE <<w.target_date, Get(w.end_date)>>

\* date_label = target_date if target_date == end_date else f"{target_date}_to_{end_date}"
\* with end_date defaulted to target_date; the label's pieces as a sequence
DateLabel(w) ==
    LET finish == IF IsNone(w.end_date) THEN w.target_date ELSE Get(w.end_date)
    IN  IF w.target_date = finish THEN <<w.target_date>> ELSE <<w.target_date, finish>>

\* _convert_to_csv: the header line and one line per row
ConvertToCsv(cols, rows) == [header |-> cols, lines |-> rows]

\* CostReportData(...) for the scope just extracted
ReportOf(scope_id, w, cols, rows) ==
    [scope_id |-> scope_id, target_date |-> DateLabel(w),
     csv_content |-> ConvertToCsv(cols, rows), row_count |-> Len(rows)]

\* Mutant: a failed scope ends the loop.
AfterFailedScopeBreak(idx, n) == n + 1

\* except Exception: ... continue
AfterFailedScope(idx, n) == idx + 1

\* extract_costs_for_date is called with one of the scope lists given.
ExtractCallWith(lists) ==
    /\ ext_pc \in {"idle", "done"}
    /\ \E sc \in lists, w \in Windows :
        /\ scopes' = sc
        /\ window' = w
    /\ ext_pc' = "scope"
    /\ scope_idx' = 1
    /\ results' = <<>>
    /\ columns' = <<>>
    /\ all_rows' = <<>>
    /\ next_link' = None
    /\ served' = <<>>
    /\ scope_log' = <<>>
    /\ UNCHANGED <<nameVars, authVars, retryVars, writerVars, pipeVars, providerVars>>

\* What is remembered of a response: how it ended, the columns and the rows it
\* carried and whether the while condition found a nextLink in it.
PageSeen(q, req) ==
    [kind |-> q.kind, columns |-> q.columns, rows |-> RowsOf(q), more |-> HasNextLink(q.next_link),
     link |-> IF HasNextLink(q.next_link) THEN q.next_link ELSE None, request |-> req]

\* QUERY_URL_TEMPLATE.format(scope_id=scope_id)
QueryUrl(scope_id) == <<"query", scope_id>>

\* "timePeriod" of the query body: the days of "from" ({start_date}T00:00:00) and
\* "to" ({end_date}T23:59:59), end_date being target_date when the caller left
\* it out; the dates are passed on as they were given
TimePeriod(w) ==
    [from |-> w.target_date,
     to |-> IF IsNone(w.end_date) THEN w.target_date ELSE Get(w.end_date)]

\* Mutant: the first query waits as long as a page download.
MakeQueryRequestSlow(scope_id, w) ==
    [method |-> "POST", url |-> QueryUrl(scope_id), timeout |-> "download_timeout",
     payload |-> Some(TimePeriod(w))]

\* _make_query_request: the call it hands to _request_with_retry; timeout names
\* the setting of the extractor whose value is passed
MakeQueryRequest(scope_id, w) ==
    [method |-> "POST", url |-> QueryUrl(scope_id), timeout |-> "request_timeout",
     payload |-> Some(TimePeriod(w))]

\* _fetch_next_page: the call it hands to _request_with_retry
FetchNextPage(link) ==
    [method |-> "GET", url |-> <<"link", link>>, timeout |-> "download_timeout",
     payload |-> None]

\* _extract_single_scope is left (by return or by an exception): its locals are gone.
ScopeLeft ==
    /\ ext_pc' = "scope"
    /\ columns' = <<>>
    /\ all_rows' = <<>>
    /\ next_link' = None

\* Mutant: a scope that failed leaves a record of the pages it had fetched.
ResultsWithPartial(res, partial) == Append(res, partial)

\* the exception passes results.append(...): what was collected in the locals
\* of _extract_single_scope is dropped
ResultsAfterFailure(res, partial) == res

\* The scope's extraction raised with response q after the responses seen:
\* it is logged and skipped.
ScopeFails(q, req, seen) ==
    /\ scope_log' = Append(scope_log, "failed")
    /\ scope_idx' = AfterFailedScope(scope_idx, Len(scopes))
    /\ served' = Append(seen, PageSeen(q, req))
    /\ ScopeLeft
    /\ results' = ResultsAfterFailure(results, ReportOf(scopes[scope_idx], window, columns, all_rows))
    /\ UNCHANGED <<scopes, window>>

\* Mutant: the newest record is put in front.
AddRecordFirst(res, rec) == <<rec>> \o res

\* results.append(CostReportData(...))
AddRecord(res, rec) == Append(res, rec)

\* Mutant: the loop gives up after the first page.
WhileNextLinkCapped(link, page_count) == HasNextLink(link) /\ page_count < 1

\* while response_data["properties"].get("nextLink"): the condition reads the
\* link only, page_count is a counter for the log
WhileNextLink(link, page_count) == HasNextLink(link)

\* A page arrived: its rows are appended; with a nextLink the while loop goes on,
\* without one the scope's record is built and appended to results.
ScopeGetsPage(q, req, cols, collected, seen) ==
    LET rows == ExtendRows(collected, RowsOf(q))
    IN  /\ served' = Append(seen, PageSeen(q, req))
        /\ IF WhileNextLink(q.next_link, Len(seen) + 1)
           THEN /\ ext_pc' = "page"
                /\ columns' = cols
                /\ all_rows' = rows
                /\ next_link' = q.next_link
                /\ UNCHANGED <<scope_idx, results, scope_log>>
           ELSE /\ ScopeLeft
                /\ results' = AddRecord(results, ReportOf(scopes[scope_idx], window, cols, rows))
                /\ scope_log' = Append(scope_log, "ok")
                /\ scope_idx' = scope_idx + 1
        /\ UNCHANGED <<scopes, window>>

\* The for loop takes the next scope: _make_query_request (a POST) and the first
\* response; all_rows starts empty, columns come from this response.
ScopeQuery ==
    /\ ext_pc = "scope"
    /\ scope_idx <= Len(scopes)
    /\ \E q \in PageResults(1) :
        LET req == MakeQueryRequest(scopes[scope_idx], window)
        IN  IF q.kind = "page"
            THEN ScopeGetsPage(q, req, q.columns, <<>>, <<>>)
            ELSE ScopeFails(q, req, <<>>)
    /\ UNCHANGED <<nameVars, authVars, retryVars, writerVars, pipeVars, providerVars>>

\* Mutant: the columns of the latest page replace those of the first.
KeepColumnsLatest(cols, q) == q.columns

\* the while loop reads nextLink and rows of a later response, never its columns
KeepColumns(cols, q) == cols

\* One turn of the while loop: _fetch_next_page (a GET of nextLink).
ScopePage ==
    /\ ext_pc = "page"
    /\ \E q \in PageResults(Len(served) + 1) :
        LET req == FetchNextPage(Get(next_link))
        IN  IF q.kind = "page"
            THEN ScopeGetsPage(q, req, KeepColumns(columns, q), all_rows, served)
            ELSE ScopeFails(q, req, served)
    /\ UNCHANGED <<nameVars, authVars, retryVars, writerVars, pipeVars, providerVars>>

\* The for loop is over: return results.
ExtractReturn ==
    /\ ext_pc = "scope"
    /\ scope_idx > Len(scopes)
    /\ ext_pc' = "done"
    /\ UNCHANGED <<nameVars, authVars, retryVars, writerVars, pipeVars, providerVars, scopes, window, scope_idx, results, columns, all_rows,
                   next_link, served, scope_log>>

InitExtract ==
    /\ ext_pc = "idle"
    /\ scopes = <<>>
    /\ window = [target_date |-> 5, end_date |-> None]
    /\ scope_idx = 1
    /\ results = <<>>
    /\ columns = <<>>
    /\ all_rows = <<>>
    /\ next_link = None
    /\ served = <<>>
    /\ scope_log = <<>>

\* A caller asks for the costs of a list of scopes.
ExtractCall == ExtractCallWith(ScopeLists)

\* A caller asks for the costs of a single scope.
ExtractCallSingle == ExtractCallWith({<<id>> : id \in ScopeIds})

NextExtract == ExtractCall \/ ScopeQuery \/ ScopePage \/ ExtractReturn

NextExtractSingle == ExtractCallSingle \/ ScopeQuery \/ ScopePage \/ ExtractReturn

(***************************************************************************)
(* AzureCostExtractor._extract_scope_name                                  *)
(*                                                                         *)
(* A string is the sequence of its characters.  A scope id is given by its *)
(* path segments; the text the function receives is their join with "/".   *)
(***************************************************************************)

\* Bound: path segments of a scope id.
MaxSegments == 4

SUBSCRIPTIONS == <<"s", "u", "b", "s", "c", "r", "i", "p", "t", "i", "o", "n", "s">>
MANAGEMENT_GROUPS == <<"m", "a", "n", "a", "g", "e", "m", "e", "n", "t", "G", "r", "o", "u", "p", "s">>
SUBSCRIPTION_PREFIX == <<"s", "u", "b", "s", "c", "r", "i", "p", "t", "i", "o", "n", "-">>
MG_PREFIX == <<"m", "g", "-">>

\* The segments scope ids are built of: the two keywords, a word that holds
\* "subscriptions" without being it, another path word, a long and a short
\* identifier and the empty segment (a leading, trailing or doubled "/").
Segments ==
    {SUBSCRIPTIONS, MANAGEMENT_GROUPS, <<"x", "s", "u", "b", "s", "c", "r", "i", "p", "t", "i", "o", "n", "s">>, <<"r", "e", "s", "o", "u", "r", "c", "e", "G", "r", "o", "u", "p", "s">>,
     <<"a", "b", "c", "d", "e", "f", "1", "2", "-", "3", "4", "5", "6">>, <<"m", "g", "1">>, <<>>}

SegmentLists == SeqsUpTo(Segments, MaxSegments) \ {<<>>}

RECURSIVE Join(_)
\* "/".join(segments)
Join(segs) ==
    IF Len(segs) = 1 THEN segs[1]
    ELSE Join(SubSeq(segs, 1, Len(segs) - 1)) \o <<"/">> \o segs[Len(segs)]

RECURSIVE Split(_)
\* scope_id.split('/')
Split(text) ==
    IF \A i \in 1..Len(text) : text[i] # "/" THEN <<text>>
    ELSE LET i == CHOOSE k \in 1..Len(text) :
                    text[k] = "/" /\ \A j \in 1..(k - 1) : text[j] # "/"
         IN  <<SubSeq(text, 1, i - 1)>> \o Split(SubSeq(text, i + 1, Len(text)))

\* word in text (substring test)
Contains(text, word) ==
    \E i \in 1..(Len(text) - Len(word) + 1) : SubSeq(text, i, i + Len(word) - 1) = word

\* parts.index(word), counted from 1; 0 stands for ValueError
IndexOf(parts, word) ==
    IF \E i \in 1..Len(parts) : parts[i] = word
    THEN CHOOSE i \in 1..Len(parts) : parts[i] = word /\ \A j \in 1..(i - 1) : parts[j] # word
    ELSE 0

\* Mutant: the slice keeps the whole text.
PrefixAll(text, n) == text

\* text[:n]
Prefix(text, n) == SubSeq(text, 1, Min(n, Len(text)))

\* parts[idx + 1] of the code (idx counted from 0) raises IndexError when the
\* keyword is the last part
HasPartAfter(parts, idx) == idx # 0 /\ idx < Len(parts)

\* return parts[-1] if parts[-1] else scope_id[:20]
Fallback(scope_id, parts) ==
    IF parts[Len(parts)] # <<>> THEN parts[Len(parts)] ELSE Prefix(scope_id, 20)

\* _extract_scope_name
ExtractScopeName(scope_id) ==
    LET parts == Split(scope_id)
        sub_idx == IndexOf(parts, SUBSCRIPTIONS)
        mg_idx == IndexOf(parts, MANAGEMENT_GROUPS)
    IN  IF Contains(scope_id, SUBSCRIPTIONS) /\ HasPartAfter(parts, sub_idx)
        THEN SUBSCRIPTION_PREFIX \o Prefix(parts[sub_idx + 1], 8)
        ELSE IF Contains(scope_id, MANAGEMENT_GROUPS) /\ HasPartAfter(parts, mg_idx)
        THEN MG_PREFIX \o parts[mg_idx + 1]
        ELSE Fallback(scope_id, parts)

\* The function is called with the scope id and returns.
ExtractScopeNameCall ==
    /\ IsNone(name_ret)
    /\ name_ret' = Some(ExtractScopeName(Join(name_arg)))
    /\ UNCHANGED <<name_arg, authVars, retryVars, extractVars, writerVars, pipeVars, providerVars>>

InitName ==
    /\ name_arg = <<<<"m", "g", "1">>>>
    /\ name_ret = None

NextName == ExtractScopeNameCall

(***************************************************************************)
(* CSVWriter (csv_writer.py)                                               *)
(*                                                                         *)
(* CSV text is a header and lines of cell texts.  pandas parses a column   *)
(* to one dtype (int64, float64 or object) from all its cells, and prints  *)
(* each value by its type, so a value that went through a file may come    *)
(* back with another type than the one it had in memory.                   *)
(***************************************************************************)

\* Bounds: rows per report, reports per call, calls (each reads a later time).
MaxCsvRows == 2
MaxCsvReports == 1
MaxCsvCalls == 3

\* A cell text: body is the text, dot0 says that ".0" follows it (how a float
\* with an integral value prints), n is the clock reading inside a timestamp.
Txt(b) == [body |-> b, dot0 |-> FALSE, n |-> 0]

\* texts that pandas parses as numbers
Numerals == {"1", "2", "7", "42"}

IsEmptyText(t) == t.body = ""
IsNumericText(t) == t.body \in Numerals

\* A value in a DataFrame: ty is int, float, str or nan.
NaN == [ty |-> "nan", txt |-> Txt("")]
StrVal(t) == [ty |-> "str", txt |-> t]

\* pd.read_csv: the dtype a column gets from its cell texts
InferDtype(cells) ==
    IF \E i \in 1..Len(cells) : ~IsEmptyText(cells[i]) /\ ~IsNumericText(cells[i])
    THEN "object"
    ELSE IF \E i \in 1..Len(cells) : IsEmptyText(cells[i]) \/ cells[i].dot0
         THEN "float"
         ELSE "int"

\* pd.read_csv: the value of one cell in a column of the given dtype
ParseCell(t, dtype) ==
    IF IsEmptyText(t) THEN NaN
    ELSE IF dtype = "object" THEN StrVal(t)
    ELSE [ty |-> dtype, txt |-> Txt(t.body)]

\* DataFrame.to_csv: how a value prints
FormatValue(v) ==
    CASE v.ty = "int" -> Txt(v.txt.body)
      [] v.ty = "float" -> [Txt(v.txt.body) EXCEPT !.dot0 = TRUE]
      [] v.ty = "str" -> v.txt
      [] OTHER -> Txt("")

\* pd.read_csv(...): raises (ok = FALSE) when there is no header to parse
ReadCsv(content) ==
    IF content.header = <<>>
    THEN [ok |-> FALSE, cols |-> <<>>, rows |-> <<>>]
    ELSE LET lines == content.lines
             dtypes == [k \in 1..Len(content.header) |->
                          InferDtype([i \in 1..Len(lines) |-> lines[i][k]])]
         IN  [ok |-> TRUE,
              cols |-> content.header,
              rows |-> [i \in 1..Len(lines) |->
                          [k \in 1..Len(content.header) |-> ParseCell(lines[i][k], dtypes[k])]]]

\* DataFrame.to_csv(filepath, index=False)
ToCsv(df) ==
    [header |-> df.cols,
     lines |-> [i \in 1..Len(df.rows) |->
                  [k \in 1..Len(df.cols) |-> FormatValue(df.rows[i][k])]]]

\* datetime.now().isoformat() at clock reading t
Timestamp(t) == [body |-> "T", dot0 |-> FALSE, n |-> t]

METADATA_COLUMNS ==
    <<"_source_scope", "_source_scope_name", "_ingestion_timestamp", "_ingestion_date",
      "_cost_date">>

\* _add_metadata_columns: five string columns, the same value in every row
AddMetadataColumns(df, report, t) ==
    LET meta == <<StrVal(Txt(report.scope_id)), StrVal(Txt(report.scope_name)),
                  StrVal(Timestamp(t)), StrVal(Txt("today")), StrVal(Txt(report.target_date))>>
    IN  [ok |-> TRUE,
         cols |-> df.cols \o METADATA_COLUMNS,
         rows |-> [i \in 1..Len(df.rows) |-> df.rows[i] \o meta]]

ColumnSet(cols) == {cols[k] : k \in 1..Len(cols)}
ColumnIndex(cols, c) == CHOOSE k \in 1..Len(cols) : cols[k] = c

\* the dtype pd.concat gives a column from the values of both frames
ConcatDtype(vals) ==
    IF \E i \in 1..Len(vals) : vals[i].ty = "str" THEN "object"
    ELSE IF \A i \in 1..Len(vals) : vals[i].ty = "int" THEN "int"
    ELSE "float"

\* a value moved into a column of the given dtype
CastValue(v, dtype) == IF dtype = "float" /\ v.ty = "int" THEN [v EXCEPT !.ty = "float"] ELSE v

\* pd.concat([existing_df, df], ignore_index=True): the union of the columns,
\* NaN where a frame lacks a column, each column cast to its common dtype
Concat(existing, df) ==
    LET cols == existing.cols \o SelectSeq(df.cols, LAMBDA c : c \notin ColumnSet(existing.cols))
        cell(f, row, c) == IF c \in ColumnSet(f.cols) THEN row[ColumnIndex(f.cols, c)] ELSE NaN
        raw == [i \in 1..Len(existing.rows) |->
                    [k \in 1..Len(cols) |-> cell(existing, existing.rows[i], cols[k])]]
               \o [i \in 1..Len(df.rows) |->
                    [k \in 1..Len(cols) |-> cell(df, df.rows[i], cols[k])]]
        dtypes == [k \in 1..Len(cols) |-> ConcatDtype([i \in 1..Len(raw) |-> raw[i][k]])]
    IN  [ok |-> TRUE,
         cols |-> cols,
         rows |-> [i \in 1..Len(raw) |-> [k \in 1..Len(cols) |-> CastValue(raw[i][k], dtypes[k])]]]

\* whether drop_duplicates takes two values for the same: numbers by value,
\* strings by text, NaN equal to NaN, and a string never equal to a number
SameValue(a, b) ==
    \/ a.ty = "nan" /\ b.ty = "nan"
    \/ a.ty \in {"int", "float"} /\ b.ty \in {"int", "float"} /\ a.txt.body = b.txt.body
    \/ a.ty = "str" /\ b.ty = "str" /\ a.txt = b.txt

RECURSIVE KeepLast(_, _, _, _)
\* the rows i..Len(rows) that no later row repeats on the key columns
KeepLast(rows, cols, keys, i) ==
    IF i > Len(rows) THEN <<>>
    ELSE LET repeated == \E j \in (i + 1)..Len(rows) :
                            \A c \in ColumnSet(keys) :
                                SameValue(rows[i][ColumnIndex(cols, c)], rows[j][ColumnIndex(cols, c)])
         IN  (IF repeated THEN <<>> ELSE <<rows[i]>>) \o KeepLast(rows, cols, keys, i + 1)

\* df.drop_duplicates(subset=keys, keep='last')
DropDuplicates(df, keys) == [df EXCEPT !.rows = KeepLast(df.rows, df.cols, keys, 1)]

KEY_COLUMNS == <<"Date", "ResourceId", "MeterId", "SubscriptionId", "_source_scope">>

\* available_keys = [col for col in key_columns if col in df.columns]
AvailableKeys(cols) == SelectSeq(KEY_COLUMNS, LAMBDA c : c \in ColumnSet(cols))

\* report.scope_name.replace('/', '_').replace('\\', '_'); the scope names written
\* here are the single path segments _extract_scope_name returns
SafeScopeName(name) == name

\* f"cost_data_{report.target_date}_{safe_scope_name}.csv"
FileName(report) == [date |-> report.target_date, name |-> SafeScopeName(report.scope_name)]

\* _save_to_csv: a new file takes the frame as it is; an existing file is read,
\* the frame is appended to it and duplicates on the available key columns go
SaveToCsv(files, df, report) ==
    LET fname == FileName(report)
        merged == IF IsNone(files[fname])
                  THEN df
                  ELSE LET cat == Concat(ReadCsv(Get(files[fname])), df)
                           keys == AvailableKeys(cat.cols)
                       IN  IF keys # <<>> THEN DropDuplicates(cat, keys) ELSE cat
    IN  [files EXCEPT ![fname] = Some(ToCsv(merged))]

\* the report saved last, whether it repeats the save before it, the use_merge
\* argument of its call, and whether both saves came with use_merge = False
Remember(written, report, use_merge) ==
    [last |-> Some(report), twice |-> written.last = Some(report), use_merge |-> use_merge,
     appended |-> written.last = Some(report) /\ ~written.use_merge /\ ~use_merge]

\* One turn of the loop of write_cost_data at clock reading t: a report that
\* cannot be parsed is logged and skipped, an empty one is skipped, any other is
\* saved and its rows are counted.  use_merge is not looked at.
WriteReport(st, report, t, use_merge) ==
    LET df == ReadCsv(report.csv_content)
    IN  IF ~df.ok \/ Len(df.rows) = 0
        THEN st
        ELSE [files |-> SaveToCsv(st.files, AddMetadataColumns(df, report, t), report),
              total |-> st.total + Len(df.rows),
              written |-> Remember(st.written, report, use_merge)]

RECURSIVE WriteReports(_, _, _, _, _)
\* for report in cost_reports, up to the n-th report
WriteReports(st, reports, n, t, use_merge) ==
    IF n = 0 THEN st
    ELSE WriteReport(WriteReports(st, reports, n - 1, t, use_merge), reports[n], t, use_merge)

CsvScopes == {[scope_id |-> "sub1", scope_name |-> "sub1"], [scope_id |-> "42", scope_name |-> "42"]}
CsvDates == {"2026-01-01"}
KeyedLines == {<<Txt("r1"), Txt("1")>>, <<Txt("r1"), Txt("2")>>, <<Txt("7"), Txt("1")>>}
UnkeyedLines == {<<Txt("1")>>}

\* csv_content: nothing at all, or a header and lines as _convert_to_csv writes them
CsvContents ==
    {[header |-> <<>>, lines |-> <<>>]}
    \cup {[header |-> <<"ResourceId", "Cost">>, lines |-> l] : l \in SeqsUpTo(KeyedLines, MaxCsvRows)}
    \cup {[header |-> <<"Cost">>, lines |-> l] : l \in SeqsUpTo(UnkeyedLines, MaxCsvRows)}

CsvReports ==
    {[scope_id |-> s.scope_id, scope_name |-> s.scope_name, target_date |-> d,
      csv_content |-> c, row_count |-> Len(c.lines)] :
        s \in CsvScopes, d \in CsvDates, c \in CsvContents}

\* the date labels a file name can carry: one date, or "<start>_to_<end>"
CsvFileDates == CsvDates \cup {"2026-01-05", "2026-01-06", "2026-01-05_to_2026-01-06"}

CsvFileNames == {[date |-> d, name |-> SafeScopeName(s.scope_name)] : d \in CsvFileDates, s \in CsvScopes}

\* CSVWriter.write_cost_data(cost_reports, use_merge)
CsvWriteCostData ==
    /\ csv_now < MaxCsvCalls
    /\ csv_now' = csv_now + 1
    /\ \E reports \in SeqsUpTo(CsvReports, MaxCsvReports), use_merge \in BOOLEAN :
        LET st == WriteReports([files |-> csv_files, total |-> 0, written |-> csv_written],
                               reports, Len(reports), csv_now, use_merge)
        IN  /\ csv_files' = st.files
            /\ csv_ret' = Some(st.total)
            /\ csv_written' = st.written
            /\ UNCHANGED <<nameVars, authVars, retryVars, extractVars, deltaVars, storage_mode, pipeVars, providerVars>>

\* __init__: os.makedirs(output_dir, exist_ok=True); the directory starts empty
InitCsv ==
    /\ csv_files = [f \in CsvFileNames |-> None]
    /\ csv_now = 0
    /\ csv_ret = None
    /\ csv_written = [last |-> None, twice |-> FALSE, use_merge |-> TRUE, appended |-> FALSE]

NextCsv == CsvWriteCostData

(***************************************************************************)
(* DeltaLakeWriter (delta_writer.py)                                       *)
(*                                                                         *)
(* A column value is None for SQL NULL, else Some(text).  The table is the *)
(* sequence of its rows; keyed says whether its schema has the columns     *)
(* ResourceId, MeterId and SubscriptionId.                                 *)
(***************************************************************************)

\* Bounds: rows per report, reports per call, calls (each at a later time).
MaxDeltaRows == 2
MaxDeltaReports == 1
MaxDeltaCalls == 3

\* spark.read.csv(header, inferSchema): an empty cell is NULL
SparkCell(text) == IF text = "" THEN None ELSE Some(text)

\* _load_csv_to_dataframe: no header line gives a frame without rows
LoadCsvToDataFrame(report) ==
    LET content == report.csv_content
        keyed == "ResourceId" \in ColumnSet(content.header)
    IN  [keyed |-> keyed,
         rows |-> IF content.header = <<>> THEN <<>>
                  ELSE [i \in 1..Len(content.lines) |->
                          IF keyed
                          THEN [ResourceId |-> SparkCell(content.lines[i][1]),
                                MeterId |-> SparkCell(content.lines[i][2]),
                                SubscriptionId |-> SparkCell(content.lines[i][3]),
                                Cost |-> SparkCell(content.lines[i][4])]
                          ELSE [ResourceId |-> None, MeterId |-> None, SubscriptionId |-> None,
                                Cost |-> SparkCell(content.lines[i][1])]]]

\* whether the label is one date (YYYY-MM-DD) and not "<start>_to_<end>"
IsSingleDate(label) == Len(label) = 1

\* F.to_date(F.lit(label)): a string that is no date gives NULL, or an error
\* when the session runs in ANSI mode
ToDate(label, ansi) ==
    IF IsSingleDate(label) THEN [ok |-> TRUE, val |-> Some(label[1])]
    ELSE IF ansi THEN [ok |-> FALSE, val |-> None]
    ELSE [ok |-> TRUE, val |-> None]

\* _add_metadata_columns at time t; ok is FALSE when evaluating the frame raises
DeltaAddMetadataColumns(df, report, t, ansi) ==
    LET d == ToDate(report.target_date, ansi)
    IN  [ok |-> d.ok,
         keyed |-> df.keyed,
         rows |-> [i \in 1..Len(df.rows) |->
                     [ResourceId |-> df.rows[i].ResourceId,
                      MeterId |-> df.rows[i].MeterId,
                      SubscriptionId |-> df.rows[i].SubscriptionId,
                      Cost |-> df.rows[i].Cost,
                      source_scope |-> Some(report.scope_id),
                      source_scope_name |-> Some(report.scope_name),
                      ingestion_timestamp |-> Some(t),
                      ingestion_date |-> d.val,
                      cost_date |-> d.val]]]

\* SQL a = b: true only when neither side is NULL
SqlEq(a, b) == ~IsNone(a) /\ ~IsNone(b) /\ a = b

\* merge_condition
MergeCondition(target, source) ==
    /\ SqlEq(target.cost_date, source.cost_date)
    /\ SqlEq(target.ResourceId, source.ResourceId)
    /\ SqlEq(target.MeterId, source.MeterId)
    /\ SqlEq(target.SubscriptionId, source.SubscriptionId)
    /\ SqlEq(target.source_scope, source.source_scope)

\* _create_partitioned_table: mode("overwrite") writes the frame as it is
CreatePartitionedTable(df) == [ok |-> TRUE, table |-> Some([keyed |-> df.keyed, rows |-> df.rows])]

\* _merge_to_delta: without a table the frame becomes the table; else MERGE:
\* it fails when the condition names a column one side lacks or when several
\* source rows match one target row, updates every matched target row from its
\* source row and inserts the source rows that match no target row
MergeToDelta(table, df) ==
    IF ~df.ok THEN [ok |-> FALSE, table |-> table]
    ELSE IF IsNone(table) THEN CreatePartitionedTable(df)
    ELSE LET t == Get(table)
             matches(i) == {j \in 1..Len(df.rows) : MergeCondition(t.rows[i], df.rows[j])}
             matched(j) == \E i \in 1..Len(t.rows) : MergeCondition(t.rows[i], df.rows[j])
             unmatched == {j \in 1..Len(df.rows) : ~matched(j)}
             RECURSIVE Inserted(_)
             Inserted(j) == IF j = 0 THEN <<>>
                            ELSE Inserted(j - 1) \o (IF j \in unmatched THEN <<df.rows[j]>> ELSE <<>>)
         IN  IF ~t.keyed \/ ~df.keyed THEN [ok |-> FALSE, table |-> table]
             ELSE IF \E i \in 1..Len(t.rows) : Cardinality(matches(i)) > 1
             THEN [ok |-> FALSE, table |-> table]
             ELSE [ok |-> TRUE,
                   table |-> Some([keyed |-> TRUE,
                                   rows |-> [i \in 1..Len(t.rows) |->
                                               IF matches(i) = {} THEN t.rows[i]
                                               ELSE df.rows[CHOOSE j \in matches(i) : TRUE]]
                                            \o Inserted(Len(df.rows))])]

\* Mutant: use_merge = False merges as well.
AppendToDeltaMerging(table, df) == MergeToDelta(table, df)

\* _append_to_delta: without a table the frame becomes the table; else the rows
\* are appended, which fails when the frame's columns are not the table's
AppendToDelta(table, df) ==
    IF ~df.ok THEN [ok |-> FALSE, table |-> table]
    ELSE IF IsNone(table) THEN CreatePartitionedTable(df)
    ELSE IF Get(table).keyed # df.keyed THEN [ok |-> FALSE, table |-> table]
    ELSE [ok |-> TRUE, table |-> Some([Get(table) EXCEPT !.rows = @ \o df.rows])]

\* One turn of the loop of write_cost_data; nothing catches an exception, so
\* after one the later reports are not written.
DeltaWriteReport(st, report, use_merge, t, ansi) ==
    LET loaded == LoadCsvToDataFrame(report)
        df == DeltaAddMetadataColumns(loaded, report, t, ansi)
        w == IF use_merge THEN MergeToDelta(st.table, df) ELSE AppendToDelta(st.table, df)
    IN  IF ~st.ok \/ Len(loaded.rows) = 0 THEN st
        ELSE [ok |-> w.ok, table |-> w.table,
              total |-> IF w.ok THEN st.total + Len(loaded.rows) ELSE st.total]

RECURSIVE DeltaWriteReports(_, _, _, _, _, _)
\* for report in cost_reports, up to the n-th report
DeltaWriteReports(st, reports, n, use_merge, t, ansi) ==
    IF n = 0 THEN st
    ELSE DeltaWriteReport(DeltaWriteReports(st, reports, n - 1, use_merge, t, ansi),
                          reports[n], use_merge, t, ansi)

DeltaScopes == {[scope_id |-> "sub1", scope_name |-> "sub1"]}
DeltaLabels == {<<5>>, <<5, 6>>}
DeltaKeyedLines == {<<"r1", "m1", "s1", "1">>, <<"r1", "m1", "s1", "2">>, <<"", "m1", "s1", "1">>}
DeltaUnkeyedLines == {<<"1">>}

DeltaContents ==
    {[header |-> <<>>, lines |-> <<>>]}
    \cup {[header |-> <<"ResourceId", "MeterId", "SubscriptionId", "Cost">>, lines |-> l] :
            l \in SeqsUpTo(DeltaKeyedLines, MaxDeltaRows)}
    \cup {[header |-> <<"PreTaxCost">>, lines |-> l] : l \in SeqsUpTo(DeltaUnkeyedLines, MaxDeltaRows)}

DeltaReports ==
    {[scope_id |-> s.scope_id, scope_name |-> s.scope_name, target_date |-> d,
      csv_content |-> c, row_count |-> Len(c.lines)] :
        s \in DeltaScopes, d \in DeltaLabels, c \in DeltaContents}

\* DeltaLakeWriter.write_cost_data(cost_reports, use_merge)
DeltaWriteCostData ==
    /\ delta_now < MaxDeltaCalls
    /\ delta_now' = delta_now + 1
    /\ \E reports \in SeqsUpTo(DeltaReports, MaxDeltaReports), use_merge \in BOOLEAN :
        LET st == DeltaWriteReports([ok |-> TRUE, table |-> delta_table, total |-> 0],
                                    reports, Len(reports), use_merge, delta_now, spark_ansi)
            call == [reports |-> reports, use_merge |-> use_merge]
        IN  /\ delta_table' = st.table
            /\ delta_ret' = IF st.ok THEN [status |-> "returned", total |-> st.total]
                            ELSE [status |-> "raised", total |-> 0]
            /\ delta_written' = IF st.ok
                                THEN [last |-> Some(call), twice |-> delta_written.last = Some(call)]
                                ELSE [last |-> None, twice |-> FALSE]
    /\ UNCHANGED <<nameVars, spark_ansi, authVars, retryVars, extractVars, csvVars, storage_mode, pipeVars, providerVars>>

\* __init__ keeps the table path; no table is there yet.
InitDelta ==
    /\ delta_table = None
    /\ delta_now = 0
    /\ delta_ret = [status |-> "none", total |-> 0]
    /\ delta_written = [last |-> None, twice |-> FALSE]

NextDelta == DeltaWriteCostData

(***************************************************************************)
(* run_pipeline and the entry point (main.py)                              *)
(***************************************************************************)

\* Bound: the dates one run is asked for.
MaxDates == 2

RunDates == {5, 6}

\* (datetime.now() - timedelta(days=1)): the day before the run
Yesterday == 6

\* config.scopes: load_config leaves the process when the list is empty
ConfigScopes == <<"sub1", "42">>

\* _extract_scope_name for the scope ids configured here: an id without "/"
\* and without a keyword is its own last part, so it is its own short name
ShortScopeName(scope_id) == scope_id

\* The arguments the entry point passes: a list of dates (maybe none), or any
\* of start_date and end_date.
RunArgs ==
    {[target_dates |-> l, start_date |-> None, end_date |-> None] : l \in SeqsUpTo(RunDates, MaxDates)}
    \cup {[target_dates |-> <<>>, start_date |-> s, end_date |-> e] :
            s \in {None, Some(5)}, e \in {None, Some(6)}}

\* if start_date and end_date: one extraction over the range; else one per
\* target date, yesterday when no date is given
WorkList(args) ==
    IF ~IsNone(args.start_date) /\ ~IsNone(args.end_date)
    THEN <<[target_date |-> Get(args.start_date), end_date |-> args.end_date]>>
    ELSE LET dates == IF args.target_dates = <<>> THEN <<Yesterday>> ELSE args.target_dates
         IN  [i \in 1..Len(dates) |-> [target_date |-> dates[i], end_date |-> None]]

\* The label of a date window as text, for the CSV file names and cells
DateText(label) ==
    IF label = <<5>> THEN "2026-01-05"
    ELSE IF label = <<6>> THEN "2026-01-06"
    ELSE "2026-01-05_to_2026-01-06"

\* What _extract_single_scope can give for one scope: an exception, or the CSV
\* text of the rows collected (a header line and maybe no row)
ScopeOutcomes(mode) ==
    {[ok |-> FALSE, content |-> [header |-> <<>>, lines |-> <<>>]]}
    \cup {[ok |-> TRUE, content |-> c] :
            c \in IF mode = "csv"
                  THEN {[header |-> <<"ResourceId", "Cost">>, lines |-> l] :
                          l \in {<<>>, <<<<Txt("r1"), Txt("1")>>>>}}
                  ELSE {[header |-> <<"ResourceId", "MeterId", "SubscriptionId", "Cost">>, lines |-> l] :
                          l \in {<<>>, <<<<"r1", "m1", "s1", "1">>>>}}
                       \cup {[header |-> <<"PreTaxCost">>, lines |-> <<<<"1">>>>]}}

ScopeOutcomeLists(mode) == [1..Len(ConfigScopes) -> ScopeOutcomes(mode)]

\* CostReportData(...) for scope n of a call
CostReportData(scope_ids, w, outs, mode, n) ==
    [scope_id |-> scope_ids[n], scope_name |-> ShortScopeName(scope_ids[n]),
     target_date |-> IF mode = "csv" THEN DateText(DateLabel(w)) ELSE DateLabel(w),
     csv_content |-> outs[n].content,
     row_count |-> Len(outs[n].content.lines)]

\* Mutant: a scope that raised gets a report as well.
ExtractCostsForDateAll(scope_ids, w, outs, mode, n) ==
    [i \in 1..n |-> CostReportData(scope_ids, w, outs, mode, i)]

RECURSIVE ExtractCostsForDate(_, _, _, _, _)
\* extract_costs_for_date over the first n scopes, outs[i] being what
\* _extract_single_scope gives for scope i: a scope that raised is skipped
ExtractCostsForDate(scope_ids, w, outs, mode, n) ==
    IF n = 0 THEN <<>>
    ELSE LET before == ExtractCostsForDate(scope_ids, w, outs, mode, n - 1)
         IN  IF outs[n].ok
             THEN Append(before, CostReportData(scope_ids, w, outs, mode, n))
             ELSE before

RECURSIVE TrackScopes(_, _, _)
\* for report in cost_reports: if report.scope_name not in scopes_processed: append
TrackScopes(seen, reports, n) ==
    IF n = 0 THEN seen
    ELSE LET before == TrackScopes(seen, reports, n - 1)
         IN  IF \E i \in 1..Len(before) : before[i] = reports[n].scope_name
             THEN before
             ELSE Append(before, reports[n].scope_name)

\* stats["success"] = len(stats["errors"]) == 0
Succeeded(errors) == Len(errors) = 0

\* sys.exit(0 if result.get("success", False) else 1)
ExitCode(success) == IF success THEN 0 ELSE 1

\* The stats after a date (or range) w went through with reports written
DateDone(stats, w, reports, rows_written) ==
    [stats EXCEPT !.dates_processed = Append(@, DateLabel(w)),
                  !.total_rows = @ + rows_written,
                  !.scopes_processed = TrackScopes(@, reports, Len(reports))]

\* except Exception as e: stats["errors"].append(error_msg)
DateFailed(stats, w) == [stats EXCEPT !.errors = Append(@, [fatal |-> FALSE, at |-> DateLabel(w)])]

\* Mutant: a date that failed ends the loop.
AfterFailedDateAbort(work) == <<>>

\* except Exception as e: ... continue -- the loop goes on with the next date
AfterFailedDate(work) == Tail(work)

\* What is remembered of the latest turn of the date loop: the window, which
\* scopes' extraction went through, how many reports extract_costs_for_date
\* returned, whether the writer was called and whether the turn ended in the
\* except clause
Turn(w, outs, reports, wrote, raised) ==
    [window |-> DateLabel(w), extracted |-> [i \in 1..Len(outs) |-> outs[i].ok],
     reports |-> Len(reports), wrote |-> wrote, raised |-> raised]

\* The required environment variables of load_config
REQUIRED_VARS ==
    {"AZURE_TENANT_ID", "AZURE_CLIENT_ID", "AZURE_CLIENT_SECRET", "AZURE_SCOPES", "OUTPUT_PATH"}

\* What os.getenv gives for a required variable: None (unset), an empty string,
\* a placeholder of the sample .env file, a usable value and, for AZURE_SCOPES,
\* a text of separators only.
SettingValues(var) ==
    {None, Some(""), Some("your-value"), Some("value")}
    \cup (IF var = "AZURE_SCOPES" THEN {Some(" , ")} ELSE {})

Environments == {env \in [REQUIRED_VARS -> {None, Some(""), Some("your-value"), Some("value"), Some(" , ")}] :
                    \A var \in REQUIRED_VARS : env[var] \in SettingValues(var)}

\* value.startswith('your-')
IsPlaceholder(value) == value = "your-value"

\* Mutant: only an unset or empty variable counts as missing.
IsMissingUnset(value) == IsNone(value) \/ Get(value) = ""

\* if not value or value.startswith('your-')
IsMissing(value) == IsNone(value) \/ Get(value) = "" \/ IsPlaceholder(Get(value))

\* [s.strip() for s in values['AZURE_SCOPES'].split(',') if s.strip()]
ParseScopes(value) == IF value = " , " THEN <<>> ELSE ConfigScopes

\* load_config: sys.exit(1) when a required variable is missing or no scope is
\* left; an optional numeric setting that int() rejects raises ValueError.
LoadConfig(env, numeric_ok) ==
    IF \E var \in REQUIRED_VARS : IsMissing(env[var]) THEN "exit"
    ELSE IF ParseScopes(Get(env["AZURE_SCOPES"])) = <<>> THEN "exit"
    ELSE IF ~numeric_ok THEN "raise"
    ELSE "ok"

\* except Exception as e (the outer clause): the error is recorded and raised again
PipelineFailed(r) ==
    [r EXCEPT !.pc = "raised", !.success = Some(FALSE),
              !.stats.errors = Append(@, [fatal |-> TRUE, at |-> <<>>])]

\* run_pipeline is called; STEP 1 loads the configuration.  load_config leaves
\* the process (sys.exit(1), which except Exception does not catch) or raises
\* into the outer except clause, or returns the validated configuration.
RunPipeline ==
    /\ run.pc = "idle"
    /\ \E args \in RunArgs, use_merge \in BOOLEAN, env \in Environments, numeric_ok \in BOOLEAN :
        LET loaded == LoadConfig(env, numeric_ok)
            called == [run EXCEPT !.env = Some(env)]
        IN  run' = IF loaded = "ok"
                   THEN [called EXCEPT !.pc = "auth", !.configured = TRUE, !.use_merge = use_merge,
                                       !.work = WorkList(args),
                                       !.range = ~IsNone(args.start_date) /\ ~IsNone(args.end_date)]
                   ELSE IF loaded = "exit"
                   THEN [called EXCEPT !.pc = "exited", !.exit_code = Some(1)]
                   ELSE PipelineFailed(called)
    /\ UNCHANGED <<nameVars, authVars, retryVars, extractVars, writerVars, providerVars>>

\* STEP 2 and STEP 3: authenticator.token exchanges a token (the first network
\* activity of the run); its failure, or one of a component's constructor,
\* reaches the outer except clause.
ValidateCredentials ==
    /\ run.pc = "auth"
    /\ \E setup \in {"ok", "raise"} :
        LET asked == [run EXCEPT !.token_exchange = TRUE]
        IN  run' = IF setup = "ok" THEN [asked EXCEPT !.pc = "dates"] ELSE PipelineFailed(asked)
    /\ UNCHANGED <<nameVars, authVars, retryVars, extractVars, writerVars, providerVars>>

\* One turn of the date loop (the only turn in range mode): the scopes are
\* extracted; without a report the date is passed over with a warning; else
\* the writer is called, and an exception of it is collected in errors.
ProcessDate ==
    /\ run.pc = "dates"
    /\ run.work # <<>>
    /\ \E outs \in ScopeOutcomeLists(storage_mode) :
        LET w == Head(run.work)
            cost_reports == ExtractCostsForDate(ConfigScopes, w, outs, storage_mode, Len(ConfigScopes))
            failed == \E i \in 1..Len(outs) : ~outs[i].ok
            next == [run EXCEPT !.work = Tail(@), !.scope_failed = @ \/ failed,
                                !.rows_before = run.stats.total_rows, !.api = TRUE]
        IN  IF cost_reports = <<>>
            THEN /\ run' = [next EXCEPT !.last = Some(Turn(w, outs, cost_reports, FALSE, FALSE))]
                 /\ UNCHANGED <<csvVars, deltaVars>>
            ELSE IF storage_mode = "csv"
            THEN LET st == WriteReports([files |-> csv_files, total |-> 0, written |-> csv_written],
                                        cost_reports, Len(cost_reports), csv_now, run.use_merge)
                 IN  /\ csv_files' = st.files
                     /\ csv_now' = csv_now + 1
                     /\ csv_ret' = Some(st.total)
                     /\ csv_written' = st.written
                     /\ run' = [next EXCEPT !.stats = DateDone(@, w, cost_reports, st.total),
                                            !.last = Some(Turn(w, outs, cost_reports, TRUE, FALSE))]
                     /\ UNCHANGED deltaVars
            ELSE LET st == DeltaWriteReports([ok |-> TRUE, table |-> delta_table, total |-> 0],
                                             cost_reports, Len(cost_reports), run.use_merge,
                                             delta_now, spark_ansi)
                 IN  /\ delta_table' = st.table
                     /\ delta_now' = delta_now + 1
                     /\ delta_ret' = IF st.ok THEN [status |-> "returned", total |-> st.total]
                                     ELSE [status |-> "raised", total |-> 0]
                     /\ run' = [next EXCEPT !.stats = IF st.ok THEN DateDone(@, w, cost_reports, st.total)
                                                      ELSE DateFailed(@, w),
                                            !.work = IF st.ok THEN @ ELSE AfterFailedDate(run.work),
                                            !.last = Some(Turn(w, outs, cost_reports, TRUE, ~st.ok))]
                     /\ UNCHANGED <<delta_written, spark_ansi, csvVars>>
    /\ UNCHANGED <<nameVars, authVars, retryVars, extractVars, storage_mode, providerVars>>

\* STEP 5: the loop is over; the summary is returned.
Finalize ==
    /\ run.pc = "dates"
    /\ run.work = <<>>
    /\ run' = [run EXCEPT !.pc = "returned", !.success = Some(Succeeded(run.stats.errors))]
    /\ UNCHANGED <<nameVars, authVars, retryVars, extractVars, writerVars, providerVars>>

\* The entry point: sys.exit with the summary's success; an exception that
\* run_pipeline raised is caught nowhere, and the interpreter exits with 1.
ProcessExit ==
    /\ run.pc \in {"returned", "raised"}
    /\ run' = [run EXCEPT !.pc = "exited",
                          !.exit_code = IF run.pc = "returned" THEN Some(ExitCode(Get(run.success)))
                                        ELSE Some(1)]
    /\ UNCHANGED <<nameVars, authVars, retryVars, extractVars, writerVars, providerVars>>

\* stats as run_pipeline sets it up
InitPipeline ==
    run = [pc |-> "idle", use_merge |-> TRUE, work |-> <<>>, range |-> FALSE,
           stats |-> [dates_processed |-> <<>>, scopes_processed |-> <<>>, total_rows |-> 0,
                      errors |-> <<>>],
           success |-> None, exit_code |-> None, last |-> None, scope_failed |-> FALSE,
           rows_before |-> 0,
           env |-> None, configured |-> FALSE, token_exchange |-> FALSE, api |-> FALSE]

NextPipeline == RunPipeline \/ ValidateCredentials \/ ProcessDate \/ Finalize \/ ProcessExit

InitOthers == InitAuth /\ InitRetry /\ InitExtract /\ InitCsv /\ InitDelta /\ InitPipeline
InitParts == InitOthers /\ InitName

InitComponents == InitParts /\ InitProvider

Init == InitComponents /\ spark_ansi = FALSE /\ storage_mode = "csv"

\* The Delta writer runs in the cluster's Spark session, whose ANSI setting is
\* either one.
InitAnySession == InitComponents /\ spark_ansi \in BOOLEAN /\ storage_mode = "delta"

\* run_pipeline builds the writer config.storage_mode names.
InitAnyWriter ==
    /\ InitComponents
    /\ storage_mode \in {"csv", "delta"}
    /\ spark_ansi \in (IF storage_mode = "csv" THEN {FALSE} ELSE BOOLEAN)

\* writer.write_cost_data(...) of the writer run_pipeline built
WriterCsv == storage_mode = "csv" /\ CsvWriteCostData
WriterDelta == storage_mode # "csv" /\ DeltaWriteCostData

NextWriter == WriterCsv \/ WriterDelta

SpecAuth == Init /\ [][NextAuth]_vars

SpecRetry == Init /\ [][NextRetry]_vars

\* The extraction of single scopes.  Every request of an extraction comes back (with a response or an exception:
\* each attempt has a timeout and the attempts are bounded), and the loops of
\* extract_costs_for_date go on.
SpecExtractFair ==
    /\ Init /\ [][NextExtractSingle]_vars
    /\ WF_vars(ScopeQuery) /\ WF_vars(ScopePage) /\ WF_vars(ExtractReturn)

SpecExtract == Init /\ [][NextExtract]_vars

SpecCsv == Init /\ [][NextCsv]_vars

SpecDelta == InitAnySession /\ [][NextDelta]_vars

SpecWriter == InitAnyWriter /\ [][NextWriter]_vars

SpecPipeline == InitAnyWriter /\ [][NextPipeline]_vars

\* create_authenticator(auth_mode, ...): any of the three classes
InitAnyProvider ==
    /\ InitParts
    /\ spark_ansi = FALSE
    /\ storage_mode = "csv"
    /\ \E mode \in AuthModes : provider = ProviderOf(mode)

SpecProvider == InitAnyProvider /\ [][NextProvider]_vars

\* _extract_scope_name is called with any scope id.
InitAnyName ==
    /\ InitOthers /\ InitProvider
    /\ spark_ansi = FALSE /\ storage_mode = "csv"
    /\ name_arg \in SegmentLists
    /\ name_ret = None
SpecName == InitAnyName /\ [][NextName]_vars

(***************************************************************************)
(* Properties of the token cache                                           *)
(***************************************************************************)

\* C3: a get_token() call made while a token is cached and now < expiry - 5 min
\* returns the cached token without a token exchange; any other call makes one
\* exchange and, when the exchange succeeds, caches its token and its expiry.
C3_TokenCache ==
    last_get.called =>
        IF last_get.had_token /\ last_get.in_window
        THEN /\ ~last_get.fetched
             /\ last_get.err = "none"
             /\ last_get.ret = last_get.cached_before
             /\ token = last_get.cached_before
        ELSE /\ last_get.fetched
             /\ last_get.err = "none" =>
                    /\ last_get.resp.kind = "json"
                    /\ token = AccessToken(last_get.resp)
                    /\ last_get.ret = token
                    /\ token_expiry =
                         Some(last_get.at + (IF IsNone(last_get.resp.expires_in)
                                             THEN DEFAULT_EXPIRES_IN
                                             ELSE Get(last_get.resp.expires_in)))

\* A second call one second before the refresh boundary is served from the cache.
C3_Witness ==
    /\ last_get.called
    /\ last_get.had_token
    /\ ~last_get.fetched
    /\ now > 0
    /\ now = Get(token_expiry) - TOKEN_BUFFER_SECONDS - 1

\* The latest get_token() call exchanged a token whose lifetime is not longer
\* than the refresh buffer.
ShortLived(g) ==
    /\ g.called /\ g.fetched /\ g.err = "none"
    /\ ~IsNone(g.resp.expires_in)
    /\ Get(g.resp.expires_in) <= TOKEN_BUFFER_SECONDS

\* C25: a token cached with expires_in <= 300 never passes the validity check
\* (its expiry less the 5-minute buffer is not after the time it was fetched),
\* so the next get_token() call, whenever it comes, exchanges a token again.
C25_ShortLivedToken ==
    /\ [](ShortLived(last_get) => ~IsTokenValid(token, token_expiry, now))
    /\ [][ShortLived(last_get) /\ last_get'.called => last_get'.fetched]_vars

\* Witness: one second after a 60-second token was cached, get_token() found
\* it in the cache, not yet expired, and exchanged a token all the same.
C25_Witness ==
    /\ last_get.called
    /\ last_get.fetched
    /\ last_get.had_token
    /\ last_get.at = 1
    /\ last_get.expiry_before = Some(ShortExpiresIn)

\* C26: a JSON answer without access_token raises an error and leaves the
\* cached token and expiry as they were; an answer with access_token and
\* without expires_in caches the token with expiry now + 3600 seconds.
C26_TokenResponse ==
    last_get.called /\ last_get.fetched /\ last_get.resp.kind = "json" =>
        /\ IsNone(last_get.resp.access_token) =>
              /\ last_get.err = "ValueError"
              /\ IsNone(last_get.ret)
              /\ token = last_get.cached_before
              /\ token_expiry = last_get.expiry_before
        /\ ~IsNone(last_get.resp.access_token) /\ IsNone(last_get.resp.expires_in) =>
              /\ last_get.err = "none"
              /\ token = AccessToken(last_get.resp)
              /\ token_expiry = Some(last_get.at + 3600)

\* Witness: with a token in the cache, an exchange was answered without
\* access_token; and the cached token is one that came without expires_in.
C26_Witness ==
    /\ last_get.called
    /\ last_get.fetched
    /\ last_get.resp.kind = "json"
    /\ IsNone(last_get.resp.access_token)
    /\ last_get.had_token
    /\ token \in {Some(t) : t \in Tokens}
    /\ token_expiry = Some(DEFAULT_EXPIRES_IN)
    /\ now > DEFAULT_EXPIRES_IN - TOKEN_BUFFER_SECONDS

(***************************************************************************)
(* Properties of _request_with_retry                                       *)
(***************************************************************************)

Trace == obs.trace
Finished == pc \in {"returned", "raised"}
LastEntry == Trace[Len(Trace)]

RECURSIVE Pow2(_)
Pow2(n) == IF n = 0 THEN 1 ELSE 2 * Pow2(n - 1)

\* The iterations that end in a backoff retry: 429, 5xx and transport failures.
IsBackoffRetry(e) == e.kind \in {"429", "5xx", "Timeout", "ConnectionError"}
IsTransport(e) == e.kind \in {"Timeout", "ConnectionError"}
IsStatusRetry(e) == e.kind \in {"401", "429", "5xx"}

CountUpTo(n, P(_)) == Cardinality({k \in 1..n : P(Trace[k])})

\* The call was ended by the code after the loop.
WasExhausted == pc = "raised" /\ attempt = MAX_RETRIES

C5_BackoffDoubles ==
    pc # "idle" =>
        /\ backoff = INITIAL_BACKOFF_SECONDS * Pow2(CountUpTo(Len(Trace), IsBackoffRetry))
        /\ \A i \in 1..Len(Trace) :
            /\ Trace[i].before = INITIAL_BACKOFF_SECONDS * Pow2(CountUpTo(i - 1, IsBackoffRetry))
            /\ Trace[i].src = "backoff" =>
                    /\ Trace[i].wait = Min(Trace[i].before, MAX_BACKOFF_SECONDS)
                    /\ Trace[i].wait <= MAX_BACKOFF_SECONDS

\* Five backoff retries of the three kinds, none with a Retry-After header.
C5_Witness ==
    /\ Len(Trace) = MAX_RETRIES
    /\ \A i \in 1..Len(Trace) : Trace[i].src = "backoff"
    /\ \E i, j, k \in 1..Len(Trace) :
        Trace[i].kind = "429" /\ Trace[j].kind = "5xx" /\ Trace[k].kind = "Timeout"
    /\ Trace[MAX_RETRIES].wait = 32

\* One loop iteration or the code after the loop.
LoopStep ==
    \/ AttemptAuthTransport
    \/ AttemptAuthError
    \/ AttemptTransport
    \/ Attempt401
    \/ Attempt429
    \/ Attempt429BadHeader
    \/ AttemptServerError
    \/ AttemptFinal
    \/ Exhausted

\* C6: a call issues at most MAX_RETRIES HTTP calls, each step of a running call
\* either ends it or starts the next of at most MAX_RETRIES iterations, and a
\* running call can always take a step.
C6_BoundedRetries ==
    /\ [](/\ obs.n_http <= MAX_RETRIES
          /\ attempt <= MAX_RETRIES
          /\ Len(Trace) <= MAX_RETRIES
          /\ pc = "loop" => ENABLED LoopStep)
    /\ [][pc = "loop" => (Finished' \/ (pc' = "loop" /\ attempt' = attempt + 1))]_vars

\* Five HTTP calls, then the call has failed.
C6_Witness ==
    /\ obs.n_http = MAX_RETRIES
    /\ pc = "raised"

\* C7 as stated: at exhaustion the error is decided by the last failure.
C7_Original ==
    WasExhausted =>
        /\ IsTransport(LastEntry) => Get(outcome).error = LastEntry.kind
        /\ IsStatusRetry(LastEntry) => Get(outcome).error = "RequestException"

\* C7 amended: at exhaustion the error is the latest transport error of the call
\* (of the request or of the token exchange made for it) if any iteration failed
\* with one, and the generic RequestException only if none did.
C7_ExhaustedError ==
    WasExhausted =>
        LET ts == {k \in 1..Len(Trace) : IsTransport(Trace[k])}
        IN  IF ts = {}
            THEN Get(outcome).error = "RequestException"
            ELSE \E k \in ts :
                    /\ \A m \in ts : m <= k
                    /\ Get(outcome).error = Trace[k].kind

\* A timeout, a connection error, then three status-code retries.
C7_Witness ==
    /\ WasExhausted
    /\ Trace[1].kind = "Timeout"
    /\ Trace[2].kind = "ConnectionError"
    /\ \A i \in 3..MAX_RETRIES : IsStatusRetry(Trace[i])

\* C8 as stated: a response that is neither 401, 429 nor >= 500 is returned.
C8_Original ==
    (Finished /\ Len(Trace) > 0 /\ LastEntry.kind = "final") =>
        /\ pc = "returned"
        /\ Get(outcome).status = LastEntry.status

\* C8 amended: such a response ends the call at once, without a wait: with a status
\* below 400 it is returned as it is, with a 4xx status raise_for_status() raises
\* HTTPError.
C8_FinalResponse ==
    /\ \A i \in 1..Len(Trace) :
        Trace[i].kind = "final" =>
            /\ i = Len(Trace)
            /\ Finished
            /\ Trace[i].wait = 0
            /\ Get(outcome).status = Trace[i].status
            /\ IF Trace[i].status < 400
               THEN pc = "returned" /\ Get(outcome).kind = "response"
               ELSE pc = "raised" /\ Get(outcome).error = "HTTPError"
    /\ pc = "returned" => (Len(Trace) > 0 /\ LastEntry.kind = "final")

\* A 404 on the first attempt.
C8_Witness ==
    /\ pc = "raised"
    /\ Len(Trace) = 1
    /\ Trace[1].kind = "final"
    /\ Trace[1].status = 404

\* C14: every HTTP call of _request_with_retry is sent with the headers acquired
\* in its own iteration, never with those of an earlier attempt; the token in
\* them is the one the authenticator holds at that moment, and the first HTTP
\* call after a 401 carries a token exchanged after the invalidation.
C14_FreshHeaders ==
    /\ \A j \in 1..Len(Trace) :
        Trace[j].http =>
            /\ Trace[j].hdr_attempt = j - 1
            /\ (j > 1 /\ Trace[j - 1].kind = "401") => Trace[j].fetched
    /\ (Len(Trace) > 0 /\ LastEntry.http) =>
            /\ ~IsNone(headers)
            /\ Get(headers).attempt = Len(Trace) - 1
            /\ IF LastEntry.kind = "401" THEN IsNone(token) ELSE Get(headers).token = token

\* A 401 on a cached token, then a second HTTP call answered with a 5xx and a
\* third one: three attempts, three acquisitions.
C14_Witness ==
    /\ Len(Trace) = 3
    /\ Trace[1].kind = "401" /\ ~Trace[1].fetched
    /\ Trace[2].kind = "5xx" /\ Trace[2].fetched
    /\ Trace[3].http /\ Trace[3].hdr_attempt = 2

\* An iteration in which get_auth_headers() raised: no HTTP call was issued.
IsAuthFailure(e) == ~e.http

\* C15 as stated: a failure of the token exchange made for an attempt ends the
\* call at once, with no wait and no further attempt.
C15_Original ==
    \A i \in 1..Len(Trace) :
        IsAuthFailure(Trace[i]) =>
            /\ i = Len(Trace)
            /\ pc = "raised"
            /\ Trace[i].wait = 0

\* C15 amended: an HTTPError or ValueError of the token exchange ends the call at
\* once with that error and without a wait; a Timeout or ConnectionError of the
\* token exchange is handled like one of the request: the capped backoff is
\* waited, the backoff is doubled, and the next attempt, if the loop has one
\* left, authenticates again with a new exchange.
C15_AuthFailure ==
    \A i \in 1..Len(Trace) :
        IsAuthFailure(Trace[i]) =>
            IF Trace[i].kind = "auth_error"
            THEN /\ i = Len(Trace)
                 /\ pc = "raised"
                 /\ Trace[i].wait = 0
                 /\ Get(outcome).error \in {"HTTPError", "ValueError"}
                 /\ backoff = Trace[i].before
            ELSE /\ IsTransport(Trace[i])
                 /\ Trace[i].src = "backoff"
                 /\ Trace[i].wait = Min(Trace[i].before, MAX_BACKOFF_SECONDS)
                 /\ i < Len(Trace) =>
                        /\ Trace[i + 1].before = 2 * Trace[i].before
                        /\ Trace[i + 1].http => Trace[i + 1].fetched
                 /\ i = Len(Trace) =>
                        /\ backoff = 2 * Trace[i].before
                        /\ IF i < MAX_RETRIES THEN pc = "loop" ELSE pc \in {"loop", "raised"}
                 /\ (i = MAX_RETRIES /\ pc = "raised") => Get(outcome).error = Trace[i].kind

\* The token exchange of the first attempt times out; the second attempt
\* exchanges a token and its request is answered with 200.
C15_Witness ==
    /\ Len(Trace) = 2
    /\ IsAuthFailure(Trace[1]) /\ Trace[1].kind = "Timeout" /\ Trace[1].wait = INITIAL_BACKOFF_SECONDS
    /\ Trace[2].http /\ Trace[2].fetched /\ Trace[2].status = 200
    /\ pc = "returned"

\* the backoff retries among the first n iterations
BackoffRetries(n) == CountUpTo(n, IsBackoffRetry)

\* An iteration whose response was a 429 that carried a Retry-After header
HasRetryAfter(e) == (e.kind = "429" /\ e.src = "retry_after") \/ e.kind = "429_bad"

\* What holds after a 429 whose Retry-After int() accepts: the header's seconds
\* are waited, the backoff is doubled all the same, and every later wait that
\* has no header of its own is min(backoff, MAX_BACKOFF_SECONDS) of the backoff
\* doubled once per backoff retry so far, that 429 included.
RetryAfterWaited(i) ==
    /\ Trace[i].src = "retry_after"
    /\ Trace[i].wait = LongRetryAfter
    /\ i < Len(Trace) => Trace[i + 1].before = 2 * Trace[i].before
    /\ i = Len(Trace) => (backoff = 2 * Trace[i].before /\ (pc = "loop" \/ WasExhausted))
    /\ \A j \in (i + 1)..Len(Trace) :
        Trace[j].src = "backoff" =>
            Trace[j].wait = Min(INITIAL_BACKOFF_SECONDS * Pow2(BackoffRetries(j - 1)),
                                MAX_BACKOFF_SECONDS)

\* C16: every 429 response that carries a Retry-After header is followed by a
\* wait of the header's value, after which the backoff is doubled and the loop
\* goes on, later waits being computed from the backoff.
C16_Original == \A i \in 1..Len(Trace) : HasRetryAfter(Trace[i]) => RetryAfterWaited(i)

\* The same for the headers that are a number of seconds.
RetryAfterSeconds ==
    \A i \in 1..Len(Trace) :
        (Trace[i].kind = "429" /\ Trace[i].src = "retry_after") => RetryAfterWaited(i)

\* C17: a 401 is followed by the fixed pause and leaves backoff as it was: the
\* wait of every backoff retry is computed from the backoff doubled once per
\* earlier 429, 5xx or transport retry, however many 401s came in between.
C17_UnauthorizedKeepsBackoff ==
    /\ \A i \in 1..Len(Trace) :
        Trace[i].kind = "401" =>
            /\ Trace[i].wait = UNAUTHORIZED_PAUSE_SECONDS
            /\ Trace[i].src = "fixed"
            /\ i < Len(Trace) => Trace[i + 1].before = Trace[i].before
            /\ i = Len(Trace) => backoff = Trace[i].before
    /\ \A j \in 1..Len(Trace) :
        Trace[j].src = "backoff" =>
            Trace[j].wait = Min(INITIAL_BACKOFF_SECONDS * Pow2(BackoffRetries(j - 1)),
                                MAX_BACKOFF_SECONDS)

\* A 5xx, two 401s, then a 429 without Retry-After: it waits the backoff doubled
\* once.
C17_Witness ==
    /\ Len(Trace) = 4
    /\ Trace[1].kind = "5xx"
    /\ Trace[2].kind = "401" /\ Trace[3].kind = "401"
    /\ Trace[4].kind = "429" /\ Trace[4].src = "backoff"
    /\ Trace[4].wait = 2 * INITIAL_BACKOFF_SECONDS

(***************************************************************************)
(* extract_costs_for_date: per-scope isolation and pagination              *)
(***************************************************************************)

RECURSIVE OkCount(_, _)
\* number of scopes among the first n handled ones that succeeded
OkCount(log, n) ==
    IF n = 0 THEN 0
    ELSE OkCount(log, n - 1) + (IF log[n] = "ok" THEN 1 ELSE 0)

RECURSIVE OkScopes(_, _, _)
\* the scope ids, in list order, of the first n handled scopes that succeeded
OkScopes(sc, log, n) ==
    IF n = 0 THEN <<>>
    ELSE IF log[n] = "ok"
         THEN Append(OkScopes(sc, log, n - 1), sc[n])
         ELSE OkScopes(sc, log, n - 1)

RECURSIVE FlattenRows(_, _)
\* the rows of the first n pages, page after page
FlattenRows(pages, n) ==
    IF n = 0 THEN <<>> ELSE FlattenRows(pages, n - 1) \o pages[n].rows

\* C1: a scope whose extraction fails is skipped without the call raising: the
\* loop never gets ahead of the scopes it has handled (so every later scope is
\* still tried), the call returns only after all scopes were handled, and the
\* result holds exactly one entry per scope that succeeded, in list order.
C1_FailedScopeSkipped ==
    /\ ext_pc # "raised"
    /\ ext_pc # "idle" =>
        /\ Len(scope_log) = scope_idx - 1
        /\ Len(scope_log) <= Len(scopes)
        /\ Len(results) = OkCount(scope_log, Len(scope_log))
        /\ [i \in 1..Len(results) |-> results[i].scope_id]
             = OkScopes(scopes, scope_log, Len(scope_log))
    /\ ext_pc = "done" => Len(scope_log) = Len(scopes)

\* A call returned after its first scope failed and its second one succeeded.
C1_Witness ==
    /\ ext_pc = "done"
    /\ Len(scopes) = 2
    /\ scopes[1] # scopes[2]
    /\ scope_log = <<"failed", "ok">>
    /\ Len(results) = 1
    /\ results[1].scope_id = scopes[2]

\* C2: pages are requested exactly while the latest response carries a
\* nextLink, the rows of a scope's record are the rows of all its pages in page
\* order, and row_count is their total number.
C2_Pagination ==
    /\ ext_pc = "page" =>
        /\ Len(served) >= 1
        /\ \A k \in 1..Len(served) : served[k].kind = "page" /\ served[k].more
        /\ all_rows = FlattenRows(served, Len(served))
    /\ (ext_pc \in {"scope", "done"} /\ Len(scope_log) >= 1) =>
        LET n == Len(served)
        IN  /\ n >= 1
            /\ \A k \in 1..(n - 1) : served[k].kind = "page" /\ served[k].more
            /\ scope_log[Len(scope_log)] = "failed" => served[n].kind # "page"
            /\ scope_log[Len(scope_log)] = "ok" =>
                LET rec == results[Len(results)]
                IN  /\ served[n].kind = "page"
                    /\ ~served[n].more
                    /\ rec.csv_content.lines = FlattenRows(served, n)
                    /\ rec.row_count = Len(FlattenRows(served, n))

\* A scope was extracted from two pages that both carried rows.
C2_Witness ==
    /\ ext_pc = "done"
    /\ scope_log = <<"ok">>
    /\ Len(served) = 2
    /\ Len(served[1].rows) = 2
    /\ Len(served[2].rows) = 2
    /\ results[1].row_count = 4
    /\ results[1].csv_content.lines = <<<<1, 1>>, <<1, 2>>, <<2, 1>>, <<2, 2>>>>

(***************************************************************************)
(* CSVWriter: writing a report twice                                       *)
(***************************************************************************)

\* whether no two lines of a file agree on all of the key columns it has
UniqueKeys(file) ==
    LET keys == AvailableKeys(file.header)
    IN  \A i, j \in 1..Len(file.lines) :
            i < j => \E c \in ColumnSet(keys) :
                        file.lines[i][ColumnIndex(file.header, c)]
                          # file.lines[j][ColumnIndex(file.header, c)]

\* C9: after the same report was saved twice in a row, each composite key
\* occurs at most once in the report's output file.
C9_Original ==
    csv_written.twice =>
        LET f == csv_files[FileName(Get(csv_written.last))]
        IN  ~IsNone(f) /\ UniqueKeys(Get(f))

(***************************************************************************)
(* DeltaLakeWriter: re-running a write with use_merge=True                 *)
(***************************************************************************)

\* whether no two rows of the table carry the same composite key
NoDuplicateRows(table) ==
    LET key(r) == <<r.cost_date, r.ResourceId, r.MeterId, r.SubscriptionId, r.source_scope>>
    IN  \A i, j \in 1..Len(table.rows) : i < j => key(table.rows[i]) # key(table.rows[j])

\* whether a report names every key column in every line and no key twice
CleanKeyedReport(report) ==
    LET lines == report.csv_content.lines
        key(l) == <<l[1], l[2], l[3]>>
    IN  /\ "ResourceId" \in ColumnSet(report.csv_content.header)
        /\ Len(lines) >= 1
        /\ \A i \in 1..Len(lines) : lines[i][1] # "" /\ lines[i][2] # "" /\ lines[i][3] # ""
        /\ \A i, j \in 1..Len(lines) : i < j => key(lines[i]) # key(lines[j])

Untimed(row) == [row EXCEPT !.ingestion_timestamp = None]

RECURSIVE CallRows(_, _)
\* the rows the first n reports of a call bring, in order
CallRows(reports, n) ==
    IF n = 0 THEN <<>>
    ELSE CallRows(reports, n - 1)
         \o DeltaAddMetadataColumns(LoadCsvToDataFrame(reports[n]), reports[n], 0, FALSE).rows

\* how many of the rows are the given row, the ingestion time left aside
CountRows(rows, row) == Cardinality({i \in 1..Len(rows) : Untimed(rows[i]) = Untimed(row)})

RECURSIVE LineCount(_, _)
\* the number of lines the first n reports of a call carry
LineCount(reports, n) ==
    IF n = 0 THEN 0 ELSE LineCount(reports, n - 1) + Len(reports[n].csv_content.lines)

\* whether no cell of a key column of the file reads as a number
TextKeys(file) ==
    \A i \in 1..Len(file.lines) : \A c \in ColumnSet(AvailableKeys(file.header)) :
        ~IsNumericText(file.lines[i][ColumnIndex(file.header, c)])

\* the rows of the table, none when there is no table
TableRows == IF IsNone(delta_table) THEN <<>> ELSE Get(delta_table).rows

\* the lines of a file, none when the file is absent
FileLines(f) == IF IsNone(f) THEN <<>> ELSE Get(f).lines

\* whether the Delta writer returned from the same call twice in a row, both
\* with use_merge = False
DeltaAppendedTwice ==
    /\ storage_mode = "delta"
    /\ delta_written.twice
    /\ ~Get(delta_written.last).use_merge

AllScopesFailed(turn) == \A i \in 1..Len(turn.extracted) : ~turn.extracted[i]

\* C19: when every scope of a date fails, or the scope list is empty,
\* extract_costs_for_date returns an empty list and run_pipeline passes the
\* date over: the writer is not called, the files and the table stay as they
\* are, and stats (errors, dates, rows) is what it was.
C19_EmptyExtraction ==
    [][/\ (run.pc = "dates" /\ run'.pc = "dates" /\ run' # run /\ AllScopesFailed(Get(run'.last))) =>
            /\ Get(run'.last).reports = 0
            /\ ~Get(run'.last).wrote
            /\ ~Get(run'.last).raised
            /\ run'.stats = run.stats
            /\ UNCHANGED <<csv_files, delta_table, csv_now, delta_now>>
       /\ \A mode \in {"csv", "delta"}, w \in Windows :
            ExtractCostsForDate(<<>>, w, <<>>, mode, 0) = <<>>]_vars

\* a run whose every date had all scopes fail has ended with nothing written
C19_Witness ==
    /\ run.pc = "exited"
    /\ ~IsNone(run.last)
    /\ AllScopesFailed(Get(run.last))
    /\ run.stats.errors = <<>>
    /\ run.stats.dates_processed = <<>>
    /\ run.exit_code = Some(0)

(***************************************************************************)
(* invalidate_token of the three authenticators                            *)
(***************************************************************************)

\* C13: a get_token() that follows an invalidate_token() performs a new token
\* exchange, also when the token cached before the invalidation was still
\* inside its validity window; this for every authenticator class.
C13_Original ==
    (provider.last.called /\ provider.last.after_invalidate) => provider.last.fetched

(***************************************************************************)
(* write_cost_data over several reports                                    *)
(***************************************************************************)

\* C18: a write_cost_data call over the reports of a date returns the rows
\* written, whichever of its reports fails: the failure stays with that report
\* and never leaves the call.
C18_Original ==
    (~IsNone(run.last) /\ Get(run.last).wrote) =>
        /\ ~Get(run.last).raised
        /\ storage_mode = "csv" => csv_ret = Some(run.stats.total_rows - run.rows_before)
        /\ storage_mode # "csv" =>
                delta_ret = [status |-> "returned", total |-> run.stats.total_rows - run.rows_before]

(***************************************************************************)
(* _extract_single_scope: the columns of a paginated result                *)
(***************************************************************************)

\* C20: the column list of a scope's result is the one of the first response:
\* while later pages are fetched the local columns stays what the first page
\* gave, whatever columns those pages carry, and the record built at the end
\* has the first page's columns as its header over the rows of all pages.
C20_FirstPageColumns ==
    /\ ext_pc = "page" => columns = served[1].columns
    /\ (ext_pc \in {"scope", "done"} /\ Len(scope_log) >= 1
            /\ scope_log[Len(scope_log)] = "ok") =>
        LET rec == results[Len(results)]
        IN  /\ rec.csv_content.header = served[1].columns
            /\ rec.csv_content.lines = FlattenRows(served, Len(served))

\* A scope's second page came with other columns than its first and with rows.
C20_Witness ==
    /\ ext_pc \in {"scope", "done"}
    /\ Len(scope_log) >= 1
    /\ scope_log[Len(scope_log)] = "ok"
    /\ Len(served) = 2
    /\ served[2].columns # served[1].columns
    /\ Len(served[2].rows) = 2
    /\ results[Len(results)].csv_content.header = served[1].columns

(***************************************************************************)
(* The requests of one scope                                               *)
(***************************************************************************)

\* The scope whose responses served holds: the one being paged through, or the
\* one the for loop has just left.
ServedScope == IF ext_pc = "page" THEN scopes[scope_idx] ELSE scopes[scope_idx - 1]

\* C21: of the requests made for one scope, the first and only the first is the
\* query: a POST of the scope's query URL with the request timeout; every later
\* one is a GET of the nextLink of the response before it with the download
\* timeout.
C21_QueryThenPages ==
    served # <<>> =>
        /\ served[1].request.method = "POST"
        /\ served[1].request.url = QueryUrl(ServedScope)
        /\ served[1].request.timeout = "request_timeout"
        /\ \A k \in 2..Len(served) :
             /\ served[k - 1].more
             /\ served[k].request.method = "GET"
             /\ served[k].request.url = <<"link", Get(served[k - 1].link)>>
             /\ served[k].request.timeout = "download_timeout"
        /\ \A k \in 1..Len(served) :
             /\ served[k].request.method = "POST" <=> k = 1
             /\ served[k].request.timeout = "request_timeout" <=> k = 1

\* Witness: a scope whose query was followed by a page fetch has been extracted.
C21_Witness ==
    /\ ext_pc = "scope"
    /\ Len(served) = 2
    /\ served[2].kind = "page"
    /\ scope_log # <<>>
    /\ scope_log[Len(scope_log)] = "ok"
    /\ served[2].request.url = <<"link", "page2">>

(***************************************************************************)
(* Date labels                                                             *)
(***************************************************************************)

\* C22: every record of a call is labelled with the single date when the end
\* date is omitted or equals the start date, and with start and end otherwise;
\* so all records of one call carry one label.  (A label is the sequence of
\* its dates: <<d>> prints as d, <<d, e>> as d_to_e.)
C22_DateLabel ==
    /\ \A i \in 1..Len(results) :
         /\ IsNone(window.end_date) => results[i].target_date = <<window.target_date>>
         /\ ~IsNone(window.end_date) /\ Get(window.end_date) = window.target_date
              => results[i].target_date = <<window.target_date>>
         /\ ~IsNone(window.end_date) /\ Get(window.end_date) # window.target_date
              => results[i].target_date = <<window.target_date, Get(window.end_date)>>
    /\ \A i, j \in 1..Len(results) : results[i].target_date = results[j].target_date

\* Witness: a call with the end date left out has returned two records.
C22_Witness ==
    /\ ext_pc = "done"
    /\ Len(results) = 2
    /\ IsNone(window.end_date)
    /\ results[2].target_date = <<5>>

(***************************************************************************)
(* Scope names                                                             *)
(***************************************************************************)

\* The first segment of segs that is word and has a segment after it (the
\* word/{id} pair the function reads), 0 when there is none.  index() finds
\* the first occurrence only, so a pair exists exactly when the first
\* occurrence is not the last segment.
PairAt(segs, word) ==
    LET first == IndexOf(segs, word)
    IN  IF first # 0 /\ first < Len(segs) THEN first ELSE 0

\* C23: a scope id with a subscriptions/{id} pair is named "subscription-" and
\* the first 8 characters of id, whatever other segments it has; one without
\* such a pair but with a managementGroups/{id} pair is named "mg-" and id.
C23_KeywordNames ==
    ~IsNone(name_ret) =>
        LET sub == PairAt(name_arg, SUBSCRIPTIONS)
            mg == PairAt(name_arg, MANAGEMENT_GROUPS)
            id == name_arg[sub + 1]
        IN  /\ sub # 0 =>
                /\ Len(id) <= 8 => Get(name_ret) = SUBSCRIPTION_PREFIX \o id
                /\ Len(id) > 8 => Get(name_ret) = SUBSCRIPTION_PREFIX \o SubSeq(id, 1, 8)
            /\ sub = 0 /\ mg # 0 => Get(name_ret) = MG_PREFIX \o name_arg[mg + 1]

\* Witness: a subscription below a management group, with a long id, was named.
C23_Witness ==
    /\ ~IsNone(name_ret)
    /\ Len(name_arg) = 4
    /\ name_arg[1] = MANAGEMENT_GROUPS
    /\ name_arg[3] = SUBSCRIPTIONS
    /\ Len(name_arg[4]) > 8
    /\ Len(Get(name_ret)) = Len(SUBSCRIPTION_PREFIX) + 8

\* The last non-empty segment of segs, None when every segment is empty.
LastNonEmpty(segs) ==
    IF \A i \in 1..Len(segs) : segs[i] = <<>> THEN None
    ELSE Some(segs[CHOOSE i \in 1..Len(segs) :
                     segs[i] # <<>> /\ \A j \in (i + 1)..Len(segs) : segs[j] = <<>>])

\* C24 as stated: a scope id with neither a subscriptions nor a
\* managementGroups segment is named by its last non-empty segment, also when
\* it ends with "/", and by its first 20 characters only when it has no
\* non-empty segment.
C24_Original ==
    ~IsNone(name_ret)
    /\ (\A i \in 1..Len(name_arg) : name_arg[i] \notin {SUBSCRIPTIONS, MANAGEMENT_GROUPS})
    => IF IsNone(LastNonEmpty(name_arg))
       THEN Get(name_ret) = Prefix(Join(name_arg), 20)
       ELSE Get(name_ret) = Get(LastNonEmpty(name_arg))

\* What holds of such ids: the name is the last segment when that is not empty.
LastSegmentName ==
    ~IsNone(name_ret)
    /\ (\A i \in 1..Len(name_arg) : name_arg[i] \notin {SUBSCRIPTIONS, MANAGEMENT_GROUPS})
    /\ name_arg[Len(name_arg)] # <<>>
    => Get(name_ret) = name_arg[Len(name_arg)]

(***************************************************************************)
(* Order of configuration and network activity; failures of single dates   *)
(***************************************************************************)

\* A required variable of the run's environment is unset, empty or a placeholder.
SettingMissing ==
    /\ ~IsNone(run.env)
    /\ \E var \in REQUIRED_VARS : Get(run.env)[var] \in {None, Some(""), Some("your-value")}

\* C27: a run whose environment lacks a required setting (unset, empty or a
\* placeholder) has left the process with exit code 1 without a token exchange
\* and without a billing API request; and in every run a token exchange or an
\* API request comes only after the configuration was loaded and validated.
C27_ConfigBeforeNetwork ==
    /\ SettingMissing =>
         /\ run.pc = "exited"
         /\ run.exit_code = Some(1)
         /\ ~run.token_exchange
         /\ ~run.api
    /\ run.token_exchange \/ run.api =>
         /\ run.configured
         /\ \A var \in REQUIRED_VARS : Get(run.env)[var] = Some("value")
    /\ run.api => run.token_exchange

\* Witness: only the client secret is still the placeholder, and the run has
\* ended with exit code 1.
C27_Witness ==
    /\ run.pc = "exited"
    /\ run.exit_code = Some(1)
    /\ ~IsNone(run.env)
    /\ Get(run.env)["AZURE_CLIENT_SECRET"] = Some("your-value")
    /\ \A var \in REQUIRED_VARS \ {"AZURE_CLIENT_SECRET"} : Get(run.env)[var] = Some("value")
    /\ ~run.token_exchange

\* C28: in the loop over target dates every turn, also one whose extraction or
\* write raised, leaves the loop running with the dates after it; a turn that
\* raised adds one error for its date to the collected errors; the summary is
\* returned only when no date is left.
C28_DateErrorIsolated ==
    /\ [][run.pc = "dates" /\ run.work # <<>> /\ ~run.range /\ run' # run =>
            /\ run'.pc = "dates"
            /\ run'.work = Tail(run.work)
            /\ run'.last # None
            /\ Get(run'.last).window = DateLabel(Head(run.work))
            /\ IF Get(run'.last).raised
               THEN run'.stats.errors =
                      Append(run.stats.errors, [fatal |-> FALSE, at |-> DateLabel(Head(run.work))])
               ELSE run'.stats.errors = run.stats.errors]_vars
    /\ [](run.pc = "returned" => run.work = <<>>)

\* Witness: of two dates the first one's write raised and was recorded, and the
\* second one was written.
C28_Witness ==
    /\ run.pc = "returned"
    /\ ~run.range
    /\ Len(run.stats.errors) = 1
    /\ ~run.stats.errors[1].fatal
    /\ Len(run.stats.dates_processed) = 1
    /\ run.stats.dates_processed[1] # run.stats.errors[1].at
    /\ ~Get(run.last).raised
    /\ Get(run.last).wrote
    /\ run.success = Some(FALSE)

(***************************************************************************)
(* Retry state of successive calls                                         *)
(***************************************************************************)

\* C29: every call of _request_with_retry begins with no attempt counted, the
\* initial backoff and no last exception, whatever the call before it left
\* behind: its first iteration finds backoff = INITIAL_BACKOFF_SECONDS.
C29_FreshRetryState ==
    /\ pc = "loop" /\ Trace = <<>> =>
         /\ attempt = 0
         /\ backoff = INITIAL_BACKOFF_SECONDS
         /\ IsNone(last_exception)
    /\ Trace # <<>> => Trace[1].before = INITIAL_BACKOFF_SECONDS
    /\ pc = "loop" => attempt = Len(Trace)

\* Witness: after a call that ended with retries, a raised backoff and a last
\* exception, the first backoff wait of the next call is the initial one.
C29_Witness ==
    /\ pc = "loop"
    /\ obs.prior
    /\ Len(Trace) = 1
    /\ Trace[1].src = "backoff"
    /\ Trace[1].wait = INITIAL_BACKOFF_SECONDS
    /\ backoff = 2 * INITIAL_BACKOFF_SECONDS

(***************************************************************************)
(* Termination of the page loop                                            *)
(***************************************************************************)

C31_Original ==
    \A k \in 1..Len(served) :
        ~IsNone(served[k].request.payload) =>
            Get(served[k].request.payload).from <= Get(served[k].request.payload).to

(***************************************************************************)
(* Length of the waits; attempts used up by 401 responses                  *)
(***************************************************************************)

\* C32 as stated: every wait of a call is at most MAX_BACKOFF_SECONDS.
C32_Original == \A i \in 1..Len(Trace) : Trace[i].wait <= MAX_BACKOFF_SECONDS

\* C32 amended: a wait computed from the backoff is at most MAX_BACKOFF_SECONDS
\* and the pause after a 401 is one second; a wait taken from a Retry-After
\* header is the header's number of seconds, whatever its size.
C32_WaitBound ==
    \A i \in 1..Len(Trace) :
        /\ Trace[i].src = "backoff" => Trace[i].wait <= MAX_BACKOFF_SECONDS
        /\ Trace[i].src = "fixed" => Trace[i].wait = UNAUTHORIZED_PAUSE_SECONDS
        /\ Trace[i].src = "none" => Trace[i].wait = 0
        /\ Trace[i].src = "retry_after" =>
             Trace[i].kind = "429" /\ Trace[i].wait = LongRetryAfter

\* Witness: a wait from a Retry-After header longer than MAX_BACKOFF_SECONDS,
\* then a backoff wait within it.
C32_Witness ==
    /\ Len(Trace) = 2
    /\ Trace[1].src = "retry_after"
    /\ Trace[1].wait > MAX_BACKOFF_SECONDS
    /\ Trace[2].src = "backoff"
    /\ Trace[2].kind = "5xx"
    /\ Trace[2].wait <= MAX_BACKOFF_SECONDS

\* C33: every 401 response uses up one of the MAX_RETRIES attempts: the
\* iterations of a call, 401s included, are at most MAX_RETRIES, so after k
\* 401s at most MAX_RETRIES - k backoff retries can follow; a call answered by
\* MAX_RETRIES 401s made MAX_RETRIES HTTP calls and MAX_RETRIES
\* invalidate_token() calls and ends with the generic exhausted error.
C33_UnauthorizedUsesAttempt ==
    LET n401 == CountUpTo(Len(Trace), LAMBDA e : e.kind = "401")
    IN  /\ pc = "loop" => attempt = Len(Trace)
        /\ Len(Trace) <= MAX_RETRIES
        /\ n401 + CountUpTo(Len(Trace), IsBackoffRetry) <= MAX_RETRIES
        /\ obs.n_inval = n401
        /\ n401 = MAX_RETRIES =>
             /\ obs.n_http = MAX_RETRIES
             /\ obs.n_inval = MAX_RETRIES
             /\ pc \in {"loop", "raised"}
             /\ pc = "loop" => attempt = MAX_RETRIES
             /\ pc = "raised" =>
                  Get(outcome) = [kind |-> "error", error |-> "RequestException", status |-> 0]

\* Witness: MAX_RETRIES 401 responses in a row, and the call has raised.
C33_Witness ==
    /\ pc = "raised"
    /\ Len(Trace) = MAX_RETRIES
    /\ \A i \in 1..MAX_RETRIES : Trace[i].kind = "401"
    /\ obs.n_inval = MAX_RETRIES
    /\ Get(outcome).error = "RequestException"

\* C39 as stated: a 429 whose Retry-After header is not an integer number of
\* seconds is followed by a backoff wait like a 429 without the header, and
\* the loop goes on within its attempts.
C39_Original ==
    \A i \in 1..Len(Trace) :
        (Trace[i].status = 429 /\ Trace[i].src # "retry_after") =>
            /\ Trace[i].src = "backoff"
            /\ Trace[i].wait = Min(Trace[i].before, MAX_BACKOFF_SECONDS)
            /\ i = Len(Trace) => (pc = "loop" \/ WasExhausted)

(***************************************************************************)
(* Records of scopes                                                       *)
(***************************************************************************)

\* C34: a scope whose query or page fetch fails adds no record and the rows
\* collected for it are dropped; whenever a record is added, it holds the rows
\* of all pages of the scope's chain, up to the page without a nextLink.
C34_AllOrNothing ==
    /\ [][scope_log' = Append(scope_log, "failed") =>
            /\ results' = results
            /\ all_rows' = <<>>
            /\ columns' = <<>>
            /\ ext_pc' = "scope"]_vars
    /\ [][Len(results') > Len(results) =>
            LET n == Len(served')
                rec == results'[Len(results')]
            IN  /\ results' = Append(results, rec)
                /\ scope_log' = Append(scope_log, "ok")
                /\ \A k \in 1..n : served'[k].kind = "page"
                /\ \A k \in 1..(n - 1) : served'[k].more
                /\ ~served'[n].more
                /\ rec.csv_content.lines = FlattenRows(served', n)
                /\ rec.row_count = Len(rec.csv_content.lines)]_vars

\* Witness: the first page of a scope brought rows, the fetch of its second
\* page failed, and the call returned without a record.
C34_Witness ==
    /\ ext_pc = "done"
    /\ Len(scopes) = 1
    /\ Len(served) = 2
    /\ Len(served[1].rows) = 2
    /\ served[2].kind = "raise"
    /\ scope_log = <<"failed">>
    /\ results = <<>>
    /\ all_rows = <<>>

\* C37: the scopes are handled one at a time in list order: each scope that is
\* finished is the one after the scope finished before it, and when it
\* succeeded its record is appended behind the records already there, leaving
\* them as they were; the record is made of the scope's own id, the call's
\* window and the scope's own pages, whatever happened to the scopes before it.
C37_ScopeOrder ==
    /\ [](ext_pc # "idle" => Len(scope_log) = scope_idx - 1)
    /\ [][(scope_log' # scope_log /\ scope_log' # <<>>) =>
            /\ scope_idx' = scope_idx + 1
            /\ scope_idx <= Len(scopes)
            /\ \E how \in {"ok", "failed"} : scope_log' = Append(scope_log, how)
            /\ IF scope_log'[Len(scope_log')] = "ok"
               THEN results' =
                      Append(results,
                             [scope_id |-> scopes[scope_idx],
                              target_date |-> DateLabel(window),
                              csv_content |-> [header |-> served'[1].columns,
                                               lines |-> FlattenRows(served', Len(served'))],
                              row_count |-> Len(FlattenRows(served', Len(served')))])
               ELSE results' = results]_vars

\* Witness: two different scopes both succeeded; the first record is the first
\* scope's, with two rows, the second the second scope's, with four.
C37_Witness ==
    /\ ext_pc = "done"
    /\ Len(scopes) = 2
    /\ scopes[1] # scopes[2]
    /\ scope_log = <<"ok", "ok">>
    /\ Len(results) = 2
    /\ results[1].scope_id = scopes[1]
    /\ results[2].scope_id = scopes[2]
    /\ results[1].row_count = 2
    /\ results[2].row_count = 4

(***************************************************************************)
(* CSVWriter: what a second write of a report leaves in the file           *)
(***************************************************************************)

\* whether no two lines of a report agree on all of the key columns it carries
\* (every line of one report has the same _source_scope)
DistinctKeys(report) ==
    LET c == report.csv_content
        keys == AvailableKeys(c.header)
    IN  \A i, j \in 1..Len(c.lines) :
            i < j => \E k \in ColumnSet(keys) :
                        c.lines[i][ColumnIndex(c.header, k)] # c.lines[j][ColumnIndex(c.header, k)]

\* C35: when the only two writes into an empty directory saved the same report,
\* and no two rows of the report share a composite key, the report's file has
\* as many rows as the report, whichever key columns the report carries.
C35_Original ==
    (csv_now = 2 /\ csv_written.twice /\ DistinctKeys(Get(csv_written.last))) =>
        LET rep == Get(csv_written.last)
            f == csv_files[FileName(rep)]
        IN  ~IsNone(f) /\ Len(Get(f).lines) = Len(rep.csv_content.lines)

\* The same with reports that carry none of the key columns taken as they are:
\* such rows have nothing but the scope to be told apart by.
UnkeyedRowsKept ==
    (csv_now = 2 /\ csv_written.twice
       /\ AvailableKeys(Get(csv_written.last).csv_content.header) = <<>>
       /\ Get(csv_written.last).scope_id = "sub1") =>
        LET rep == Get(csv_written.last)
            f == csv_files[FileName(rep)]
        IN  ~IsNone(f) /\ Len(Get(f).lines) = Len(rep.csv_content.lines)

(***************************************************************************)
(* TokenProvider: the cached token and the cached expiry go together       *)
(***************************************************************************)

\* C36: the cached token and the cached expiry are both absent or both
\* present, and whenever one of them changes, either both become absent or
\* both are taken from the response of that one exchange.
C36_Original ==
    /\ [](IsNone(token) <=> IsNone(token_expiry))
    /\ [][(token' # token \/ token_expiry' # token_expiry) =>
            \/ IsNone(token') /\ IsNone(token_expiry')
            \/ /\ last_get'.called /\ last_get'.fetched
               /\ token' = last_get'.resp.access_token
               /\ token_expiry' = Some(now + ExpiresIn(last_get'.resp))]_vars

(***************************************************************************)
(* Scope names as file names                                               *)
(***************************************************************************)

\* report.scope_name.replace('/', '_').replace('\\', '_'), on the characters
ReplaceSeparators(text) ==
    [i \in 1..Len(text) |-> IF text[i] \in {"/", "\\"} THEN "_" ELSE text[i]]

\* C38: no scope id other than the one just named gets the same file name for
\* the same date label, that is the same scope name after the separators in it
\* were replaced.
C38_Original ==
    ~IsNone(name_ret) =>
        \A other \in SegmentLists :
            Join(other) # Join(name_arg) =>
                ReplaceSeparators(ExtractScopeName(Join(other)))
                  # ReplaceSeparators(Get(name_ret))
====
